---- MODULE Spec2Model ----
(***************************************************************************)
(* Sensor recommendation engine (bc_csv7.py) and its HTTP layer (main.py). *)
(*                                                                         *)
(* Text.  A Python str is a sequence of Unicode code points, so that       *)
(* substring tests, case folding, regular-expression search and the        *)
(* numeric-token scan are computed character by character.  The original   *)
(* text of every literal is given in the comment beside it.                *)
(*                                                                         *)
(* Numbers.  A float score is a fixed-point integer in units of 1/SCALE;   *)
(* a weight or a threshold is an integer in units of 1/WSCALE.             *)
(***************************************************************************)
EXTENDS Integers, Sequences, FiniteSets, TLC

VARIABLES
  system_state,   \* main.py: the process-wide slot (df, model, device_embeddings, initialized, error_message)
  phase,          \* "boot" before startup_event has run; then "idle" (waiting for a
                  \* call) or "done" (a call has returned and its record is in call)
  call            \* the last call made and what it returned

SCALE == 100 * 1000
WSCALE == 10 * 10
ONE == SCALE

Min(a, b) == IF a <= b THEN a ELSE b
Max(a, b) == IF a >= b THEN a ELSE b
SetMin(S) == CHOOSE x \in S : \A y \in S : x <= y

(***************************************************************************)
(* Strings                                                                 *)
(***************************************************************************)
\* pandas' missing value (NaN) in a cell, and the value of row.get(col) when
\* the catalog has no such column (None).
NaN == <<-1>>
None == <<-2>>
notna(v) == v # NaN /\ v # None

\* str(v): 'nan' for NaN, 'None' for None, the text itself otherwise.
Str(v) == IF v = NaN THEN <<110, 97, 110>>
          ELSE IF v = None THEN <<78, 111, 110, 101>>
          ELSE v

\* str.lower() and str.upper() on the letters A-Z / a-z; every other code
\* point of the tables and the inputs has no case.
Lower(s) == [i \in 1..Len(s) |-> IF s[i] >= 65 /\ s[i] <= 90 THEN s[i] + 32 ELSE s[i]]
Upper(s) == [i \in 1..Len(s) |-> IF s[i] >= 97 /\ s[i] <= 122 THEN s[i] - 32 ELSE s[i]]

\* Python whitespace: space, \t \n \v \f \r and the ideographic space.
IsSpace(c) == c \in {32, 9, 10, 11, 12, 13, 12288}

\* s.strip(chars): drop the leading and trailing characters that are in chars.
StripSet(s, chars) ==
  LET keep == {i \in 1..Len(s) : s[i] \notin chars}
  IN  IF keep = {} THEN <<>>
      ELSE LET lo == SetMin(keep)
               hi == CHOOSE x \in keep : \A y \in keep : y <= x
           IN  SubSeq(s, lo, hi)
Strip(s) == StripSet(s, {32, 9, 10, 11, 12, 13, 12288})

\* sub occurs in s at position i.
OccursAt(sub, s, i) ==
  /\ i >= 1
  /\ i + Len(sub) - 1 <= Len(s)
  /\ \A k \in 1..Len(sub) : s[i + k - 1] = sub[k]

\* Python's  sub in s.
Contains(sub, s) == \E i \in 1..(Len(s) - Len(sub) + 1) : OccursAt(sub, s, i)

\* any(kw in s for kw in kws)
AnyIn(kws, s) == \E k \in 1..Len(kws) : Contains(kws[k], s)

\* sum(1 for kw in kws if kw in s)
CountIn(kws, s) == Cardinality({k \in 1..Len(kws) : Contains(kws[k], s)})

\* s.replace(old, ''): delete the code points in the set drop (single-character olds).
RemoveChars(s, drop) == SelectSeq(s, LAMBDA c : c \notin drop)

(***************************************************************************)
(* re.search(pattern, text, re.IGNORECASE) for the patterns of the tables: *)
(* literals, '.*' and groups of literal alternatives.  An alternative      *)
(* matches when its literals occur in order without overlapping ('.' does  *)
(* not match a line break; the queries of the model hold none).            *)
(***************************************************************************)
RECURSIVE MatchParts(_, _, _)
MatchParts(parts, s, from) ==
  IF parts = <<>> THEN TRUE
  ELSE LET p    == Lower(parts[1])
           cand == {i \in from..(Len(s) - Len(p) + 1) : OccursAt(p, s, i)}
       IN  cand # {} /\ MatchParts(Tail(parts), s, SetMin(cand) + Len(p))

re_search(pattern, text) ==
  \E a \in 1..Len(pattern) : MatchParts(pattern[a], Lower(text), 1)

\* any(re.search(p, text, re.IGNORECASE) for p in patterns)
AnyPattern(patterns, text) == \E p \in 1..Len(patterns) : re_search(patterns[p], text)

(***************************************************************************)
(* Pattern and keyword tables                                              *)
(***************************************************************************)
\* direct_needs_patterns (bc_csv7.py 169-178). A regular expression is a sequence of
\* alternatives; an alternative is the sequence of literals its '.*' separate.
direct_needs_patterns == <<
  \* 熱顯像: 紅外線.*熱顯像, 熱顯像.*模組, 熱顯像, 熱像儀, 體溫.*感測, 溫度異常, 紅外線.*影像
  [label |-> <<29105, 39023, 20687>>, patterns |-> <<
     <<<<<<32005, 22806, 32218>>, <<29105, 39023, 20687>>>>>>,
     <<<<<<29105, 39023, 20687>>, <<27169, 32068>>>>>>,
     <<<<<<29105, 39023, 20687>>>>>>,
     <<<<<<29105, 20687, 20736>>>>>>,
     <<<<<<39636, 28331>>, <<24863, 28204>>>>>>,
     <<<<<<28331, 24230, 30064, 24120>>>>>>,
     <<<<<<32005, 22806, 32218>>, <<24433, 20687>>>>>>
  >>],
  \* 毫米波雷達: 毫米波.*人流, 毫米波.*模組, 人流.*計算, 人員.*追蹤, 動線.*監控, 人體.*偵測, 毫米波雷達
  [label |-> <<27627, 31859, 27874, 38647, 36948>>, patterns |-> <<
     <<<<<<27627, 31859, 27874>>, <<20154, 27969>>>>>>,
     <<<<<<27627, 31859, 27874>>, <<27169, 32068>>>>>>,
     <<<<<<20154, 27969>>, <<35336, 31639>>>>>>,
     <<<<<<20154, 21729>>, <<36861, 36452>>>>>>,
     <<<<<<21205, 32218>>, <<30435, 25511>>>>>>,
     <<<<<<20154, 39636>>, <<20597, 28204>>>>>>,
     <<<<<<27627, 31859, 27874, 38647, 36948>>>>>>
  >>],
  \* 氣體感測: 氣體.*感測, 氣體.*偵測, 氣體.*檢測, co2.*感測, co₂.*感測, voc.*感測, 空氣品質.*感測, 臭氧.*感測, 一氧化碳.*感測, 氨氣.*感測, 可燃氣體.*感測
  [label |-> <<27683, 39636, 24863, 28204>>, patterns |-> <<
     <<<<<<27683, 39636>>, <<24863, 28204>>>>>>,
     <<<<<<27683, 39636>>, <<20597, 28204>>>>>>,
     <<<<<<27683, 39636>>, <<27298, 28204>>>>>>,
     <<<<<<99, 111, 50>>, <<24863, 28204>>>>>>,
     <<<<<<99, 111, 8322>>, <<24863, 28204>>>>>>,
     <<<<<<118, 111, 99>>, <<24863, 28204>>>>>>,
     <<<<<<31354, 27683, 21697, 36074>>, <<24863, 28204>>>>>>,
     <<<<<<33261, 27687>>, <<24863, 28204>>>>>>,
     <<<<<<19968, 27687, 21270, 30899>>, <<24863, 28204>>>>>>,
     <<<<<<27688, 27683>>, <<24863, 28204>>>>>>,
     <<<<<<21487, 29123, 27683, 39636>>, <<24863, 28204>>>>>>
  >>],
  \* 二氧化碳氣體感測: 二氧化碳.*感測, co2.*感測, co2, 二氧化碳, co₂.*濃度, co2濃度, co2.*檢測, co₂(感測器|模組|設備)
  [label |-> <<20108, 27687, 21270, 30899, 27683, 39636, 24863, 28204>>, patterns |-> <<
     <<<<<<20108, 27687, 21270, 30899>>, <<24863, 28204>>>>>>,
     <<<<<<99, 111, 50>>, <<24863, 28204>>>>>>,
     <<<<<<99, 111, 50>>>>>>,
     <<<<<<20108, 27687, 21270, 30899>>>>>>,
     <<<<<<99, 111, 8322>>, <<28611, 24230>>>>>>,
     <<<<<<99, 111, 50, 28611, 24230>>>>>>,
     <<<<<<99, 111, 50>>, <<27298, 28204>>>>>>,
     <<<<<<99, 111, 8322, 24863, 28204, 22120>>>>, <<<<99, 111, 8322, 27169, 32068>>>>, <<<<99, 111, 8322, 35373, 20633>>>>>>
  >>],
  \* 溫濕度: 溫濕度.*感測, 溫度.*濕度.*監控, 溫濕度, 環境.*溫濕度, 溫度.*感測, 濕度.*感測, 室內.*溫度
  [label |-> <<28331, 28629, 24230>>, patterns |-> <<
     <<<<<<28331, 28629, 24230>>, <<24863, 28204>>>>>>,
     <<<<<<28331, 24230>>, <<28629, 24230>>, <<30435, 25511>>>>>>,
     <<<<<<28331, 28629, 24230>>>>>>,
     <<<<<<29872, 22659>>, <<28331, 28629, 24230>>>>>>,
     <<<<<<28331, 24230>>, <<24863, 28204>>>>>>,
     <<<<<<28629, 24230>>, <<24863, 28204>>>>>>,
     <<<<<<23460, 20839>>, <<28331, 24230>>>>>>
  >>],
  \* 環境光感測: 光照.*感測, 照度.*偵測, 亮度.*監控, 環境光.*感測
  [label |-> <<29872, 22659, 20809, 24863, 28204>>, patterns |-> <<
     <<<<<<20809, 29031>>, <<24863, 28204>>>>>>,
     <<<<<<29031, 24230>>, <<20597, 28204>>>>>>,
     <<<<<<20142, 24230>>, <<30435, 25511>>>>>>,
     <<<<<<29872, 22659, 20809>>, <<24863, 28204>>>>>>
  >>],
  \* 傾斜/振動: 傾斜.*偵測, 振動.*感測, 角度.*感測, 晃動.*感測, 地震.*預警, 結構.*監控, 傾斜.*(感測器|模組|設備)?
  [label |-> <<20670, 26012, 47, 25391, 21205>>, patterns |-> <<
     <<<<<<20670, 26012>>, <<20597, 28204>>>>>>,
     <<<<<<25391, 21205>>, <<24863, 28204>>>>>>,
     <<<<<<35282, 24230>>, <<24863, 28204>>>>>>,
     <<<<<<26179, 21205>>, <<24863, 28204>>>>>>,
     <<<<<<22320, 38663>>, <<38928, 35686>>>>>>,
     <<<<<<32080, 27083>>, <<30435, 25511>>>>>>,
     <<<<<<20670, 26012>>, <<24863, 28204, 22120>>>>, <<<<20670, 26012>>, <<27169, 32068>>>>, <<<<20670, 26012>>, <<35373, 20633>>>>, <<<<20670, 26012>>>>>>
  >>],
  \* 超音波風速風向: 風速.*感測, 風向.*感測, 風力.*偵測, 風速風向, 氣象.*監控, 超音波.*風速
  [label |-> <<36229, 38899, 27874, 39080, 36895, 39080, 21521>>, patterns |-> <<
     <<<<<<39080, 36895>>, <<24863, 28204>>>>>>,
     <<<<<<39080, 21521>>, <<24863, 28204>>>>>>,
     <<<<<<39080, 21147>>, <<20597, 28204>>>>>>,
     <<<<<<39080, 36895, 39080, 21521>>>>>>,
     <<<<<<27683, 35937>>, <<30435, 25511>>>>>>,
     <<<<<<36229, 38899, 27874>>, <<39080, 36895>>>>>>
  >>]
>>

\* environmental_context_patterns (bc_csv7.py 181-206). A regular expression is a sequence of
\* alternatives; an alternative is the sequence of literals its '.*' separate.
environmental_context_patterns == <<
  \* 低溫環境 -> 低溫環境適用: 低溫.*環境, 冷藏.*倉庫, 冷凍.*環境, 極低溫
  [label |-> <<20302, 28331, 29872, 22659>>, requirement |-> <<20302, 28331, 29872, 22659, 36969, 29992>>, patterns |-> <<
     <<<<<<20302, 28331>>, <<29872, 22659>>>>>>,
     <<<<<<20919, 34255>>, <<20489, 24235>>>>>>,
     <<<<<<20919, 20941>>, <<29872, 22659>>>>>>,
     <<<<<<26997, 20302, 28331>>>>>>
  >>],
  \* 高溫環境 -> 高溫環境適用: 高溫.*環境, 極高溫
  [label |-> <<39640, 28331, 29872, 22659>>, requirement |-> <<39640, 28331, 29872, 22659, 36969, 29992>>, patterns |-> <<
     <<<<<<39640, 28331>>, <<29872, 22659>>>>>>,
     <<<<<<26997, 39640, 28331>>>>>>
  >>],
  \* 高濕環境 -> 抗濕環境: 高濕.*環境, 潮濕.*環境, 濕度.*較高
  [label |-> <<39640, 28629, 29872, 22659>>, requirement |-> <<25239, 28629, 29872, 22659>>, patterns |-> <<
     <<<<<<39640, 28629>>, <<29872, 22659>>>>>>,
     <<<<<<28526, 28629>>, <<29872, 22659>>>>>>,
     <<<<<<28629, 24230>>, <<36611, 39640>>>>>>
  >>],
  \* 工業環境 -> 工業級耐用性: 工廠.*環境, 工業.*現場, 生產.*環境
  [label |-> <<24037, 26989, 29872, 22659>>, requirement |-> <<24037, 26989, 32026, 32784, 29992, 24615>>, patterns |-> <<
     <<<<<<24037, 24288>>, <<29872, 22659>>>>>>,
     <<<<<<24037, 26989>>, <<29694, 22580>>>>>>,
     <<<<<<29983, 29986>>, <<29872, 22659>>>>>>
  >>],
  \* 室內環境 -> 室內部署適用: 室內.*環境, 建築.*內部, 密閉.*空間
  [label |-> <<23460, 20839, 29872, 22659>>, requirement |-> <<23460, 20839, 37096, 32626, 36969, 29992>>, patterns |-> <<
     <<<<<<23460, 20839>>, <<29872, 22659>>>>>>,
     <<<<<<24314, 31689>>, <<20839, 37096>>>>>>,
     <<<<<<23494, 38281>>, <<31354, 38291>>>>>>
  >>],
  \* 戶外環境 -> 戶外防護等級: 戶外.*環境, 野外.*應用, 室外.*監控
  [label |-> <<25142, 22806, 29872, 22659>>, requirement |-> <<25142, 22806, 38450, 35703, 31561, 32026>>, patterns |-> <<
     <<<<<<25142, 22806>>, <<29872, 22659>>>>>>,
     <<<<<<37326, 22806>>, <<25033, 29992>>>>>>,
     <<<<<<23460, 22806>>, <<30435, 25511>>>>>>
  >>]
>>

\* technical_specs_patterns (bc_csv7.py 208-229). A regular expression is a sequence of
\* alternatives; an alternative is the sequence of literals its '.*' separate.
technical_specs_patterns == <<
  \* AI功能 -> AI擴充相容性: AI, 人工智慧, 機器學習, 行為辨識, 智能分析
  [label |-> <<65, 73, 21151, 33021>>, spec |-> <<65, 73, 25844, 20805, 30456, 23481, 24615>>, patterns |-> <<
     <<<<<<65, 73>>>>>>,
     <<<<<<20154, 24037, 26234, 24935>>>>>>,
     <<<<<<27231, 22120, 23416, 32722>>>>>>,
     <<<<<<34892, 28858, 36776, 35672>>>>>>,
     <<<<<<26234, 33021, 20998, 26512>>>>>>
  >>],
  \* 即時監控 -> 連續監控能力: 即時, 實時, 連續監測, 持續監控
  [label |-> <<21363, 26178, 30435, 25511>>, spec |-> <<36899, 32396, 30435, 25511, 33021, 21147>>, patterns |-> <<
     <<<<<<21363, 26178>>>>>>,
     <<<<<<23526, 26178>>>>>>,
     <<<<<<36899, 32396, 30435, 28204>>>>>>,
     <<<<<<25345, 32396, 30435, 25511>>>>>>
  >>],
  \* 無線傳輸 -> 無線通訊功能: 無線, wifi, 藍牙, zigbee, lora
  [label |-> <<28961, 32218, 20659, 36664>>, spec |-> <<28961, 32218, 36890, 35338, 21151, 33021>>, patterns |-> <<
     <<<<<<28961, 32218>>>>>>,
     <<<<<<119, 105, 102, 105>>>>>>,
     <<<<<<34253, 29273>>>>>>,
     <<<<<<122, 105, 103, 98, 101, 101>>>>>>,
     <<<<<<108, 111, 114, 97>>>>>>
  >>],
  \* 低功耗 -> 低功耗設計: 低功耗, 省電, 電池供電, 節能
  [label |-> <<20302, 21151, 32791>>, spec |-> <<20302, 21151, 32791, 35373, 35336>>, patterns |-> <<
     <<<<<<20302, 21151, 32791>>>>>>,
     <<<<<<30465, 38651>>>>>>,
     <<<<<<38651, 27744, 20379, 38651>>>>>>,
     <<<<<<31680, 33021>>>>>>
  >>],
  \* 高精度 -> 高精度測量: 高精度, 精確, 準確度, 精密
  [label |-> <<39640, 31934, 24230>>, spec |-> <<39640, 31934, 24230, 28204, 37327>>, patterns |-> <<
     <<<<<<39640, 31934, 24230>>>>>>,
     <<<<<<31934, 30906>>>>>>,
     <<<<<<28310, 30906, 24230>>>>>>,
     <<<<<<31934, 23494>>>>>>
  >>]
>>

\* application_domain_patterns (bc_csv7.py 231-237). A regular expression is a sequence of
\* alternatives; an alternative is the sequence of literals its '.*' separate.
application_domain_patterns == <<
  \* 智慧農業: 農業, 溫室, 種植, 農作物, 灌溉
  [label |-> <<26234, 24935, 36786, 26989>>, patterns |-> <<
     <<<<<<36786, 26989>>>>>>,
     <<<<<<28331, 23460>>>>>>,
     <<<<<<31278, 26893>>>>>>,
     <<<<<<36786, 20316, 29289>>>>>>,
     <<<<<<28748, 28297>>>>>>
  >>],
  \* 工業監控: 工廠, 生產線, 機械, 設備監控, 預測維護
  [label |-> <<24037, 26989, 30435, 25511>>, patterns |-> <<
     <<<<<<24037, 24288>>>>>>,
     <<<<<<29983, 29986, 32218>>>>>>,
     <<<<<<27231, 26800>>>>>>,
     <<<<<<35373, 20633, 30435, 25511>>>>>>,
     <<<<<<38928, 28204, 32173, 35703>>>>>>
  >>],
  \* 建築安全: 建築, 結構, 安全監控, 火災預警, 安防
  [label |-> <<24314, 31689, 23433, 20840>>, patterns |-> <<
     <<<<<<24314, 31689>>>>>>,
     <<<<<<32080, 27083>>>>>>,
     <<<<<<23433, 20840, 30435, 25511>>>>>>,
     <<<<<<28779, 28797, 38928, 35686>>>>>>,
     <<<<<<23433, 38450>>>>>>
  >>],
  \* 環境監測: 環境, 氣候, 空氣品質, 污染監測, 氣象
  [label |-> <<29872, 22659, 30435, 28204>>, patterns |-> <<
     <<<<<<29872, 22659>>>>>>,
     <<<<<<27683, 20505>>>>>>,
     <<<<<<31354, 27683, 21697, 36074>>>>>>,
     <<<<<<27745, 26579, 30435, 28204>>>>>>,
     <<<<<<27683, 35937>>>>>>
  >>],
  \* 智慧城市: 城市, 交通, 公共設施, 智慧路燈, 人流統計
  [label |-> <<26234, 24935, 22478, 24066>>, patterns |-> <<
     <<<<<<22478, 24066>>>>>>,
     <<<<<<20132, 36890>>>>>>,
     <<<<<<20844, 20849, 35373, 26045>>>>>>,
     <<<<<<26234, 24935, 36335, 29128>>>>>>,
     <<<<<<20154, 27969, 32113, 35336>>>>>>
  >>]
>>

\* sensor_type_keywords (bc_csv7.py 276-314), in dictionary order.
sensor_type_keywords == <<
  \* 熱顯像
  [key |-> <<29105, 39023, 20687>>,
   \*   primary: 熱顯像, 紅外線, 熱源, 火源, 體溫, 溫度影像, 人員追蹤, 熱成像
   primary |-> <<<<29105, 39023, 20687>>, <<32005, 22806, 32218>>, <<29105, 28304>>, <<28779, 28304>>, <<39636, 28331>>, <<28331, 24230, 24433, 20687>>, <<20154, 21729, 36861, 36452>>, <<29105, 25104, 20687>>>>,
   \*   secondary: 無接觸, 監控
   secondary |-> <<<<28961, 25509, 35320>>, <<30435, 25511>>>>
  ],
  \* 溫濕度
  [key |-> <<28331, 28629, 24230>>,
   \*   primary: 溫度, 濕度, 溫濕度, 環境溫度, 環境濕度, 空氣濕潤度
   primary |-> <<<<28331, 24230>>, <<28629, 24230>>, <<28331, 28629, 24230>>, <<29872, 22659, 28331, 24230>>, <<29872, 22659, 28629, 24230>>, <<31354, 27683, 28629, 28516, 24230>>>>,
   \*   secondary: 監控, 控制, 農業, 環境, 溫室, 機房, 倉儲
   secondary |-> <<<<30435, 25511>>, <<25511, 21046>>, <<36786, 26989>>, <<29872, 22659>>, <<28331, 23460>>, <<27231, 25151>>, <<20489, 20786>>>>
  ],
  \* 氣體感測
  [key |-> <<27683, 39636, 24863, 28204>>,
   \*   primary: 氨氣, 氣體, 空氣品質, 一氧化碳, 二氧化碳, co2, co₂, 甲烷, VOC, 氣體檢測, 氣體洩漏, 可燃氣體, 空氣品質監控, 室內空氣, 通風, 空氣監測, 空氣檢測, 排風, 氣體濃度
   primary |-> <<<<27688, 27683>>, <<27683, 39636>>, <<31354, 27683, 21697, 36074>>, <<19968, 27687, 21270, 30899>>, <<20108, 27687, 21270, 30899>>, <<99, 111, 50>>, <<99, 111, 8322>>, <<30002, 28919>>, <<86, 79, 67>>, <<27683, 39636, 27298, 28204>>, <<27683, 39636, 27945, 28431>>, <<21487, 29123, 27683, 39636>>, <<31354, 27683, 21697, 36074, 30435, 25511>>, <<23460, 20839, 31354, 27683>>, <<36890, 39080>>, <<31354, 27683, 30435, 28204>>, <<31354, 27683, 27298, 28204>>, <<25490, 39080>>, <<27683, 39636, 28611, 24230>>>>,
   \*   secondary: 工業監控, 氣體洩漏
   secondary |-> <<<<24037, 26989, 30435, 25511>>, <<27683, 39636, 27945, 28431>>>>
  ],
  \* 毫米波雷達
  [key |-> <<27627, 31859, 27874, 38647, 36948>>,
   \*   primary: 毫米波, 雷達, 人流, 人數統計, 動線追蹤
   primary |-> <<<<27627, 31859, 27874>>, <<38647, 36948>>, <<20154, 27969>>, <<20154, 25976, 32113, 35336>>, <<21205, 32218, 36861, 36452>>>>,
   \*   secondary: 人員偵測, 流量統計
   secondary |-> <<<<20154, 21729, 20597, 28204>>, <<27969, 37327, 32113, 35336>>>>
  ],
  \* 超音波風速風向
  [key |-> <<36229, 38899, 27874, 39080, 36895, 39080, 21521>>,
   \*   primary: 風速, 風向, 氣象, 風力
   primary |-> <<<<39080, 36895>>, <<39080, 21521>>, <<27683, 35937>>, <<39080, 21147>>>>,
   \*   secondary: 氣象, 氣候
   secondary |-> <<<<27683, 35937>>, <<27683, 20505>>>>
  ],
  \* 環境光感測
  [key |-> <<29872, 22659, 20809, 24863, 28204>>,
   \*   primary: 光照, 照度, 亮度, 環境光, 光度, 光照度, 日照強度
   primary |-> <<<<20809, 29031>>, <<29031, 24230>>, <<20142, 24230>>, <<29872, 22659, 20809>>, <<20809, 24230>>, <<20809, 29031, 24230>>, <<26085, 29031, 24375, 24230>>>>,
   \*   secondary: 農業, 日照, 光源
   secondary |-> <<<<36786, 26989>>, <<26085, 29031>>, <<20809, 28304>>>>
  ],
  \* 傾斜/振動
  [key |-> <<20670, 26012, 47, 25391, 21205>>,
   \*   primary: 傾斜, 振動, 角度, 穩定性監測, 機械振動, 結構監測
   primary |-> <<<<20670, 26012>>, <<25391, 21205>>, <<35282, 24230>>, <<31337, 23450, 24615, 30435, 28204>>, <<27231, 26800, 25391, 21205>>, <<32080, 27083, 30435, 28204>>>>,
   \*   secondary: 機械監測, 設備監控
   secondary |-> <<<<27231, 26800, 30435, 28204>>, <<35373, 20633, 30435, 25511>>>>
  ],
  \* 二氧化碳氣體感測
  [key |-> <<20108, 27687, 21270, 30899, 27683, 39636, 24863, 28204>>,
   \*   primary: CO2, CO₂, 二氧化碳, 空氣品質, 空氣監測, co2, co₂, 二氧化碳濃度, CO2濃度, ppm, 火災
   primary |-> <<<<67, 79, 50>>, <<67, 79, 8322>>, <<20108, 27687, 21270, 30899>>, <<31354, 27683, 21697, 36074>>, <<31354, 27683, 30435, 28204>>, <<99, 111, 50>>, <<99, 111, 8322>>, <<20108, 27687, 21270, 30899, 28611, 24230>>, <<67, 79, 50, 28611, 24230>>, <<112, 112, 109>>, <<28779, 28797>>>>,
   \*   secondary: 通風, 空調, 室內環境
   secondary |-> <<<<36890, 39080>>, <<31354, 35519>>, <<23460, 20839, 29872, 22659>>>>
  ]
>>

\* application_keywords (bc_csv7.py 426-482), in dictionary order.
application_keywords == <<
  \* 溫濕度監控偵測
  [key |-> <<28331, 28629, 24230, 30435, 25511, 20597, 28204>>,
   \*   primary: 溫度, 濕度, 溫濕度, 環境溫度, 環境濕度
   primary |-> <<<<28331, 24230>>, <<28629, 24230>>, <<28331, 28629, 24230>>, <<29872, 22659, 28331, 24230>>, <<29872, 22659, 28629, 24230>>>>,
   \*   secondary: 農業, 氣候, 環境監控
   secondary |-> <<<<36786, 26989>>, <<27683, 20505>>, <<29872, 22659, 30435, 25511>>>>,
   \*   context: 持續監測, 記錄, 感測
   context |-> <<<<25345, 32396, 30435, 28204>>, <<35352, 37636>>, <<24863, 28204>>>>
  ],
  \* 火災預警偵測
  [key |-> <<28779, 28797, 38928, 35686, 20597, 28204>>,
   \*   primary: 火災, 火源, 熱源, 安全監控, 預警, 熱顯像, co2, CO₂, 二氧化碳, 濃度
   primary |-> <<<<28779, 28797>>, <<28779, 28304>>, <<29105, 28304>>, <<23433, 20840, 30435, 25511>>, <<38928, 35686>>, <<29105, 39023, 20687>>, <<99, 111, 50>>, <<67, 79, 8322>>, <<20108, 27687, 21270, 30899>>, <<28611, 24230>>>>,
   \*   secondary: 建築安全, 監控系統, 紅外線, 溫度監測
   secondary |-> <<<<24314, 31689, 23433, 20840>>, <<30435, 25511, 31995, 32113>>, <<32005, 22806, 32218>>, <<28331, 24230, 30435, 28204>>>>,
   \*   context: 即時, 自動, 警報, 偵測
   context |-> <<<<21363, 26178>>, <<33258, 21205>>, <<35686, 22577>>, <<20597, 28204>>>>
  ],
  \* 火災預警偵測(wifi)
  [key |-> <<28779, 28797, 38928, 35686, 20597, 28204, 40, 119, 105, 102, 105, 41>>,
   \*   primary: 火災, 無線, wifi, 遠端監控, 熱顯像, co2, CO₂, 二氧化碳, 濃度
   primary |-> <<<<28779, 28797>>, <<28961, 32218>>, <<119, 105, 102, 105>>, <<36960, 31471, 30435, 25511>>, <<29105, 39023, 20687>>, <<99, 111, 50>>, <<67, 79, 8322>>, <<20108, 27687, 21270, 30899>>, <<28611, 24230>>>>,
   \*   secondary: 物聯網, iot, 雲端, 無線傳輸
   secondary |-> <<<<29289, 32879, 32178>>, <<105, 111, 116>>, <<38642, 31471>>, <<28961, 32218, 20659, 36664>>>>,
   \*   context: 即時傳輸, 遠端, 無線通訊
   context |-> <<<<21363, 26178, 20659, 36664>>, <<36960, 31471>>, <<28961, 32218, 36890, 35338>>>>
  ],
  \* 體溫偵測
  [key |-> <<39636, 28331, 20597, 28204>>,
   \*   primary: 體溫, 紅外線感測, 熱顯像, 額溫偵測
   primary |-> <<<<39636, 28331>>, <<32005, 22806, 32218, 24863, 28204>>, <<29105, 39023, 20687>>, <<38989, 28331, 20597, 28204>>>>,
   \*   secondary: 發燒, 體表溫度, 醫療偵測, 健康監控
   secondary |-> <<<<30332, 29138>>, <<39636, 34920, 28331, 24230>>, <<37291, 30274, 20597, 28204>>, <<20581, 24247, 30435, 25511>>>>,
   \*   context: 即時傳輸, 遠端, 不接觸
   context |-> <<<<21363, 26178, 20659, 36664>>, <<36960, 31471>>, <<19981, 25509, 35320>>>>
  ],
  \* 氣候光照偵測
  [key |-> <<27683, 20505, 20809, 29031, 20597, 28204>>,
   \*   primary: 光照, 照度, 環境光, 氣候, co2, CO₂, 二氧化碳
   primary |-> <<<<20809, 29031>>, <<29031, 24230>>, <<29872, 22659, 20809>>, <<27683, 20505>>, <<99, 111, 50>>, <<67, 79, 8322>>, <<20108, 27687, 21270, 30899>>>>,
   \*   secondary: 農業, 植物生長, 溫室, 環境監測
   secondary |-> <<<<36786, 26989>>, <<26893, 29289, 29983, 38263>>, <<28331, 23460>>, <<29872, 22659, 30435, 28204>>>>,
   \*   context: 光線感測, 氣候監控, 環境參數
   context |-> <<<<20809, 32218, 24863, 28204>>, <<27683, 20505, 30435, 25511>>, <<29872, 22659, 21443, 25976>>>>
  ],
  \* 土壤氣候整合偵測
  [key |-> <<22303, 22756, 27683, 20505, 25972, 21512, 20597, 28204>>,
   \*   primary: 土壤, 氣候, 農業, 種植, co2, CO₂, 光照, 溫濕度
   primary |-> <<<<22303, 22756>>, <<27683, 20505>>, <<36786, 26989>>, <<31278, 26893>>, <<99, 111, 50>>, <<67, 79, 8322>>, <<20809, 29031>>, <<28331, 28629, 24230>>>>,
   \*   secondary: 智慧農業, 精準農業, 植物生長
   secondary |-> <<<<26234, 24935, 36786, 26989>>, <<31934, 28310, 36786, 26989>>, <<26893, 29289, 29983, 38263>>>>,
   \*   context: 整合監測, 多參數, 農業應用
   context |-> <<<<25972, 21512, 30435, 28204>>, <<22810, 21443, 25976>>, <<36786, 26989, 25033, 29992>>>>
  ],
  \* 無CO2土壤氣候偵測
  [key |-> <<28961, 67, 79, 50, 22303, 22756, 27683, 20505, 20597, 28204>>,
   \*   primary: 土壤, 氣候, 光照, 環境監測, 無co2
   primary |-> <<<<22303, 22756>>, <<27683, 20505>>, <<20809, 29031>>, <<29872, 22659, 30435, 28204>>, <<28961, 99, 111, 50>>>>,
   \*   secondary: 簡化監測, 基礎農業, 環境感測
   secondary |-> <<<<31777, 21270, 30435, 28204>>, <<22522, 30990, 36786, 26989>>, <<29872, 22659, 24863, 28204>>>>,
   \*   context: 基本參數, 成本優化
   context |-> <<<<22522, 26412, 21443, 25976>>, <<25104, 26412, 20778, 21270>>>>
  ],
  \* 人流計算與氨氣感測
  [key |-> <<20154, 27969, 35336, 31639, 33287, 27688, 27683, 24863, 28204>>,
   \*   primary: 人流, 人數統計, 氨氣, 毫米波, 雷達, 空氣品質, 空氣監控, 空氣異味, 有害氣體, 空氣, 人潮, 排風, 換氣
   primary |-> <<<<20154, 27969>>, <<20154, 25976, 32113, 35336>>, <<27688, 27683>>, <<27627, 31859, 27874>>, <<38647, 36948>>, <<31354, 27683, 21697, 36074>>, <<31354, 27683, 30435, 25511>>, <<31354, 27683, 30064, 21619>>, <<26377, 23475, 27683, 39636>>, <<31354, 27683>>, <<20154, 28526>>, <<25490, 39080>>, <<25563, 27683>>>>,
   \*   secondary: 空氣品質, 人員統計, 通風, 排風系統, 除臭, 空間使用
   secondary |-> <<<<31354, 27683, 21697, 36074>>, <<20154, 21729, 32113, 35336>>, <<36890, 39080>>, <<25490, 39080, 31995, 32113>>, <<38500, 33261>>, <<31354, 38291, 20351, 29992>>>>,
   \*   context: 雷達偵測, 氣體監測, 雙重功能
   context |-> <<<<38647, 36948, 20597, 28204>>, <<27683, 39636, 30435, 28204>>, <<38617, 37325, 21151, 33021>>>>
  ],
  \* 森林應用監測
  [key |-> <<26862, 26519, 25033, 29992, 30435, 28204>>,
   \*   primary: 森林, 風力, 風向, 風速, 戶外監測
   primary |-> <<<<26862, 26519>>, <<39080, 21147>>, <<39080, 21521>>, <<39080, 36895>>, <<25142, 22806, 30435, 28204>>>>,
   \*   secondary: 氣象, 環境監測, 野外應用
   secondary |-> <<<<27683, 35937>>, <<29872, 22659, 30435, 28204>>, <<37326, 22806, 25033, 29992>>>>,
   \*   context: 超音波, 氣象參數, 戶外環境
   context |-> <<<<36229, 38899, 27874>>, <<27683, 35937, 21443, 25976>>, <<25142, 22806, 29872, 22659>>>>
  ],
  \* 傾斜偵測
  [key |-> <<20670, 26012, 20597, 28204>>,
   \*   primary: 傾斜, 角度, 穩定性, 結構監測, 振動
   primary |-> <<<<20670, 26012>>, <<35282, 24230>>, <<31337, 23450, 24615>>, <<32080, 27083, 30435, 28204>>, <<25391, 21205>>>>,
   \*   secondary: 建築安全, 結構健康, 設備監控
   secondary |-> <<<<24314, 31689, 23433, 20840>>, <<32080, 27083, 20581, 24247>>, <<35373, 20633, 30435, 25511>>>>,
   \*   context: 雙軸, 精密測量, 安全監控
   context |-> <<<<38617, 36600>>, <<31934, 23494, 28204, 37327>>, <<23433, 20840, 30435, 25511>>>>
  ],
  \* 馬達偵測
  [key |-> <<39340, 36948, 20597, 28204>>,
   \*   primary: 馬達, 振動, 設備監控, 機械, 傾斜
   primary |-> <<<<39340, 36948>>, <<25391, 21205>>, <<35373, 20633, 30435, 25511>>, <<27231, 26800>>, <<20670, 26012>>>>,
   \*   secondary: 工業設備, 預測維護, 機械健康
   secondary |-> <<<<24037, 26989, 35373, 20633>>, <<38928, 28204, 32173, 35703>>, <<27231, 26800, 20581, 24247>>>>,
   \*   context: 設備診斷, 振動分析, 預防保養
   context |-> <<<<35373, 20633, 35386, 26039>>, <<25391, 21205, 20998, 26512>>, <<38928, 38450, 20445, 39178>>>>
  ]
>>

\* env_requirements (bc_csv7.py 527-533).
env_requirements == [
  \* 低溫環境: 低溫, 冷藏, 冷凍, 極低溫
  low_temp |-> <<<<20302, 28331>>, <<20919, 34255>>, <<20919, 20941>>, <<26997, 20302, 28331>>>>,
  \* 高濕環境: 高濕, 潮濕, 抗濕
  high_humidity |-> <<<<39640, 28629>>, <<28526, 28629>>, <<25239, 28629>>>>,
  \* AI擴充: AI, 人工智慧, 機器學習, 行為辨識
  ai |-> <<<<65, 73>>, <<20154, 24037, 26234, 24935>>, <<27231, 22120, 23416, 32722>>, <<34892, 28858, 36776, 35672>>>>,
  \* 即時監控: 即時, 實時, 連續監測
  realtime |-> <<<<21363, 26178>>, <<23526, 26178>>, <<36899, 32396, 30435, 28204>>>>,
  \* 人員追蹤: 人員, 移動軌跡, 追蹤, 行為
  tracking |-> <<<<20154, 21729>>, <<31227, 21205, 36556, 36321>>, <<36861, 36452>>, <<34892, 28858>>>>
]
(***************************************************************************)
(* analyze_user_intent                                                     *)
(***************************************************************************)
InSeq(x, seq) == \E i \in 1..Len(seq) : seq[i] = x

LowTempCtx == <<20302, 28331, 29872, 22659>>    \* 低溫環境
HighHumidCtx == <<39640, 28629, 29872, 22659>>  \* 高濕環境
HighTempCtx == <<39640, 28331, 29872, 22659>>   \* 高溫環境
TempHumidity == <<28331, 28629, 24230>>         \* 溫濕度

\* Variant of ExcludeKeywords that does not look at the direct needs.
ExcludeKeywordsAnyNeed(environmental_context, direct_sensor_needs) ==
  IF \E ctx \in {LowTempCtx, HighHumidCtx, HighTempCtx} : InSeq(ctx, environmental_context)
  THEN <<TempHumidity>>
  ELSE <<>>

\* The exclusion derivation of analyze_user_intent.
ExcludeKeywords(environmental_context, direct_sensor_needs) ==
  IF /\ \E ctx \in {LowTempCtx, HighHumidCtx, HighTempCtx} : InSeq(ctx, environmental_context)
     /\ ~InSeq(TempHumidity, direct_sensor_needs)
  THEN <<TempHumidity>>
  ELSE <<>>

analyze_user_intent(user_input) ==
  LET direct == SelectSeq(direct_needs_patterns,
                          LAMBDA e : AnyPattern(e.patterns, user_input))
      env    == SelectSeq(environmental_context_patterns,
                          LAMBDA e : AnyPattern(e.patterns, user_input))
      tech   == SelectSeq(technical_specs_patterns,
                          LAMBDA e : AnyPattern(e.patterns, user_input))
      dom    == SelectSeq(application_domain_patterns,
                          LAMBDA e : AnyPattern(e.patterns, user_input))
      direct_sensor_needs   == [i \in 1..Len(direct) |-> direct[i].label]
      environmental_context == [i \in 1..Len(env) |-> env[i].label]
  IN  [direct_sensor_needs      |-> direct_sensor_needs,
       environmental_context    |-> environmental_context,
       exclude_keywords         |-> ExcludeKeywords(environmental_context, direct_sensor_needs),
       primary_application      |-> None,
       environment_needs        |-> [i \in 1..Len(env) |-> env[i].requirement],
       technical_specs          |-> [i \in 1..Len(tech) |-> tech[i].spec],
       priority_features        |-> <<>>,
       application_domain       |-> IF Len(dom) > 0 THEN dom[1].label ELSE None,
       deployment_context       |-> <<>>,
       performance_requirements |-> <<>>]

(***************************************************************************)
(* calculate_sensor_type_similarity                                        *)
(***************************************************************************)
\* row.get(col, default): the default when the catalog has no such column.
GetOr(v, default) == IF v = None THEN default ELSE v

\* The score of an explicitly requested type.
DirectScore == (9 * SCALE) \div 10

\* Variant of KeywordScore that leaves out the min(..., 1.0) caps.
KeywordScoreUncapped(kws, user_lower) ==
  LET primary_matches   == CountIn(kws.primary, user_lower)
      secondary_matches == CountIn(kws.secondary, user_lower)
      n   == Len(kws.primary)
      ns  == Len(kws.secondary)
      k10 == IF n > 12 THEN 25 ELSE IF n > 5 THEN 17 ELSE 14
      s10 == IF n > 5 THEN 13 ELSE 10
      primary_score   == (primary_matches * 4 * k10 * SCALE) \div (n * 10)
      secondary_score == Min((secondary_matches * s10 * 3 * SCALE) \div (ns * 100),
                             (2 * SCALE) \div 10)
  IN  IF primary_matches = 0 THEN 0
      ELSE primary_score + secondary_score

\* Variant of KeywordScore that scores secondary keywords also when no
\* primary keyword occurs.
KeywordScoreWithoutPrimary(kws, user_lower) ==
  LET primary_matches   == CountIn(kws.primary, user_lower)
      secondary_matches == CountIn(kws.secondary, user_lower)
      n   == Len(kws.primary)
      ns  == Len(kws.secondary)
      k10 == IF n > 12 THEN 25 ELSE IF n > 5 THEN 17 ELSE 14
      s10 == IF n > 5 THEN 13 ELSE 10
      primary_score   == Min((primary_matches * 4 * k10 * SCALE) \div (n * 10), ONE)
      secondary_score == Min((secondary_matches * s10 * 3 * SCALE) \div (ns * 100),
                             (2 * SCALE) \div 10)
  IN  Min(primary_score + secondary_score, ONE)

\* The tier-normalised keyword score of a type that has a keyword table.
KeywordScore(kws, user_lower) ==
  LET primary_matches   == CountIn(kws.primary, user_lower)
      secondary_matches == CountIn(kws.secondary, user_lower)
      n   == Len(kws.primary)
      ns  == Len(kws.secondary)
      \* primary divisor len/2.5, len/1.7, len/1.4; secondary len/1.3, len/1.3, len/1
      k10 == IF n > 12 THEN 25 ELSE IF n > 5 THEN 17 ELSE 14
      s10 == IF n > 5 THEN 13 ELSE 10
      primary_score   == Min((primary_matches * 4 * k10 * SCALE) \div (n * 10), ONE)
      secondary_score == Min((secondary_matches * s10 * 3 * SCALE) \div (ns * 100),
                             (2 * SCALE) \div 10)
  IN  IF primary_matches = 0 THEN 0
      ELSE Min(primary_score + secondary_score, ONE)

\* Variant of TypeSimRow that leaves out the exclusion test.
TypeSimRowNoExclusion(intent, user_lower, row) ==
  LET sensor_type == Strip(Str(GetOr(row.type, <<>>)))
      table == SelectSeq(sensor_type_keywords, LAMBDA e : e.key = sensor_type)
  IN  IF InSeq(sensor_type, intent.direct_sensor_needs)
      THEN (9 * SCALE) \div 10
      ELSE IF Len(table) > 0
      THEN KeywordScore(table[1], user_lower)
      ELSE 0

\* Variant of TypeSimRow that consults the keyword table before the direct
\* needs.
TypeSimRowKeywordsFirst(intent, user_lower, row) ==
  LET sensor_type == Strip(Str(GetOr(row.type, <<>>)))
      table == SelectSeq(sensor_type_keywords, LAMBDA e : e.key = sensor_type)
  IN  IF \E x \in 1..Len(intent.exclude_keywords) :
             Contains(intent.exclude_keywords[x], sensor_type)
      THEN 0
      ELSE IF Len(table) > 0
      THEN KeywordScore(table[1], user_lower)
      ELSE IF InSeq(sensor_type, intent.direct_sensor_needs)
      THEN (9 * SCALE) \div 10
      ELSE 0

\* Variant of TypeSimRow whose exclusion test does not look at the type.
TypeSimRowExcludesAll(intent, user_lower, row) ==
  LET sensor_type == Strip(Str(GetOr(row.type, <<>>)))
      table == SelectSeq(sensor_type_keywords, LAMBDA e : e.key = sensor_type)
  IN  IF Len(intent.exclude_keywords) > 0
      THEN 0
      ELSE IF InSeq(sensor_type, intent.direct_sensor_needs)
      THEN DirectScore
      ELSE IF Len(table) > 0
      THEN KeywordScore(table[1], user_lower)
      ELSE 0

\* One iteration of the loop over df.iterrows().
TypeSimRow(intent, user_lower, row) ==
  LET sensor_type == Strip(Str(GetOr(row.type, <<>>)))
      table == SelectSeq(sensor_type_keywords, LAMBDA e : e.key = sensor_type)
  IN  IF \E x \in 1..Len(intent.exclude_keywords) :
             Contains(intent.exclude_keywords[x], sensor_type)
      THEN 0
      ELSE IF InSeq(sensor_type, intent.direct_sensor_needs)
      THEN DirectScore
      ELSE IF Len(table) > 0
      THEN KeywordScore(table[1], user_lower)
      ELSE 0

\* for _, row in df.iterrows(): similarities.append(...)
RECURSIVE TypeSimRows(_, _, _)
TypeSimRows(intent, user_lower, rows) ==
  IF rows = <<>> THEN <<>>
  ELSE <<TypeSimRow(intent, user_lower, rows[1])>>
       \o TypeSimRows(intent, user_lower, Tail(rows))

calculate_sensor_type_similarity(user_input, df) ==
  TypeSimRows(analyze_user_intent(user_input), Lower(user_input), df)

(***************************************************************************)
(* calculate_module_similarity                                             *)
(***************************************************************************)
\* re.sub(r'[（(].*?[）)]', '', s): delete, left to right, every stretch from
\* an opening parenthesis to the nearest closing one after it.
RECURSIVE StripParens(_)
StripParens(s) ==
  LET opens == {i \in 1..Len(s) : /\ s[i] \in {65288, 40}
                                  /\ \E j \in (i + 1)..Len(s) : s[j] \in {65289, 41}}
  IN  IF opens = {} THEN s
      ELSE LET i == SetMin(opens)
               j == SetMin({x \in (i + 1)..Len(s) : s[x] \in {65289, 41}})
           IN  SubSeq(s, 1, i - 1) \o StripParens(SubSeq(s, j + 1, Len(s)))

\* s.replace(old, new): every occurrence, left to right, without overlap.
RECURSIVE Replace(_, _, _)
Replace(s, old, new) ==
  LET at == {i \in 1..(Len(s) - Len(old) + 1) : OccursAt(old, s, i)}
  IN  IF at = {} THEN s
      ELSE LET i == SetMin(at)
           IN  SubSeq(s, 1, i - 1) \o new
                 \o Replace(SubSeq(s, i + Len(old), Len(s)), old, new)

Detector == <<20597, 28204, 22120>>   \* 偵測器
Detection == <<20597, 28204>>         \* 偵測

\* module_clean of one module name.
ModuleClean(module) == Replace(StripParens(Lower(module)), Detector, Detection)

\* difflib.SequenceMatcher(a, b).find_longest_match over whole strings: the
\* longest common block, the earliest in a and then the earliest in b.
LongestMatch(a, b) ==
  LET blocks == {t \in (1..Len(a)) \X (1..Len(b)) \X (1..Min(Len(a), Len(b))) :
                   /\ t[1] + t[3] - 1 <= Len(a)
                   /\ t[2] + t[3] - 1 <= Len(b)
                   /\ \A k \in 0..(t[3] - 1) : a[t[1] + k] = b[t[2] + k]}
  IN  IF blocks = {} THEN <<0, 0, 0>>
      ELSE CHOOSE t \in blocks :
             \A u \in blocks :
               \/ t[3] > u[3]
               \/ t[3] = u[3] /\ t[1] < u[1]
               \/ t[3] = u[3] /\ t[1] = u[1] /\ t[2] <= u[2]

\* The number of matched characters of get_matching_blocks (Ratcliff/Obershelp):
\* the longest block, then the same to its left and to its right.
RECURSIVE MatchCount(_, _)
MatchCount(a, b) ==
  IF Len(a) = 0 \/ Len(b) = 0 THEN 0
  ELSE LET m == LongestMatch(a, b)
       IN  IF m[3] = 0 THEN 0
           ELSE m[3]
                + MatchCount(SubSeq(a, 1, m[1] - 1), SubSeq(b, 1, m[2] - 1))
                + MatchCount(SubSeq(a, m[1] + m[3], Len(a)), SubSeq(b, m[2] + m[3], Len(b)))

\* a < b for strings, as Python orders them (by code point, shorter first).
StrLess(a, b) ==
  \E i \in 1..(Len(b)) :
    /\ \A k \in 1..(i - 1) : k <= Len(a) /\ a[k] = b[k]
    /\ \/ i = Len(a) + 1
       \/ i <= Len(a) /\ a[i] < b[i]

\* get_close_matches(word, [k.lower() for k in application_keywords], n=1, cutoff=0.6):
\* the keys with ratio 2*M/T >= 0.6; of these the one with the greatest
\* (ratio, key).  The result is the sequence of indices of the keys equal to it
\* after lower-casing (empty when no key clears the cutoff).
CloseMatch(word) ==
  LET n     == Len(application_keywords)
      key(i) == Lower(application_keywords[i].key)
      M(i)  == MatchCount(key(i), word)
      T(i)  == Len(key(i)) + Len(word)
      ok    == {i \in 1..n : 10 * M(i) >= 3 * T(i)}
      better(i, j) == \/ M(i) * T(j) > M(j) * T(i)
                      \/ M(i) * T(j) = M(j) * T(i) /\ StrLess(key(j), key(i))
  IN  IF ok = {} THEN 0
      ELSE LET best == CHOOSE i \in ok : \A j \in ok : j = i \/ key(j) = key(i) \/ better(i, j)
           IN  SetMin({i \in 1..n : key(i) = key(best)})

\* matched_key of one cleaned module name: the index of the profile, 0 for none.
MatchedKey(module_clean) ==
  LET direct == {i \in 1..Len(application_keywords) :
                   LET k == Lower(application_keywords[i].key)
                   IN  Contains(module_clean, k) \/ Contains(k, module_clean)}
  IN  IF direct # {} THEN SetMin(direct) ELSE CloseMatch(module_clean)

\* weight / total of one profile.
ProfileSimilarity(keywords, user_lower) ==
  LET primary   == CountIn(keywords.primary, user_lower)
      secondary == CountIn(keywords.secondary, user_lower)
      context   == CountIn(keywords.context, user_lower)
      weight100 == primary * 100 + secondary * 20 + context * 5
      total100  == Len(keywords.primary) * 40 + Len(keywords.secondary) * 7
                   + Len(keywords.context) * 2
  IN  (weight100 * SCALE) \div total100

\* Variant of ModuleSimilarity without the verbatim short-circuit.
ModuleSimilarityProfileOnly(module, user_lower) ==
  LET matched_key == MatchedKey(ModuleClean(module))
  IN  IF matched_key # 0
      THEN ProfileSimilarity(application_keywords[matched_key], user_lower)
      ELSE 0

\* What one module adds to max_similarity.
ModuleSimilarity(module, user_lower) ==
  LET module_clean == ModuleClean(module)
      matched_key  == MatchedKey(module_clean)
  IN  IF Contains(module_clean, user_lower) THEN ONE
      ELSE IF matched_key # 0
      THEN ProfileSimilarity(application_keywords[matched_key], user_lower)
      ELSE 0

\* The cell of parsed_modules holds NaN (a float) instead of a list.
NaNList == <<NaN>>
\* The catalog has no parsed_modules column.
AbsentList == <<None>>

RECURSIVE SeqMax(_)
SeqMax(s) == IF s = <<>> THEN 0 ELSE Max(s[1], SeqMax(Tail(s)))

\* One iteration of the loop over df.iterrows().
ModuleSimRow(user_lower, row) ==
  LET mods == IF row.parsed_modules = AbsentList THEN <<>> ELSE row.parsed_modules
  IN  Min(SeqMax([m \in 1..Len(mods) |-> ModuleSimilarity(mods[m], user_lower)]), ONE)

\* Iterating a NaN cell raises TypeError ('float' object is not iterable):
\* NaN is truthy, so the guard of the loop lets it through.
ModuleSimRaises(df) == \E i \in 1..Len(df) : df[i].parsed_modules = NaNList

\* for _, row in df.iterrows(): similarities.append(min(max_similarity, 1))
RECURSIVE ModuleSimRows(_, _)
ModuleSimRows(user_lower, rows) ==
  IF rows = <<>> THEN <<>>
  ELSE <<ModuleSimRow(user_lower, rows[1])>> \o ModuleSimRows(user_lower, Tail(rows))

calculate_module_similarity(user_input, df) == ModuleSimRows(Lower(user_input), df)

(***************************************************************************)
(* calculate_environment_similarity                                        *)
(***************************************************************************)
IsDigit(c) == c >= 48 /\ c <= 57

\* The length of the run of digits of s that starts at position i.
RECURSIVE DigitRun(_, _)
DigitRun(s, i) == IF i <= Len(s) /\ IsDigit(s[i]) THEN 1 + DigitRun(s, i + 1) ELSE 0

\* int(token) of an optional minus sign and decimal digits.
RECURSIVE DigitsValue(_)
DigitsValue(d) == IF d = <<>> THEN 0
                  ELSE 10 * DigitsValue(SubSeq(d, 1, Len(d) - 1)) + (d[Len(d)] - 48)
IntOf(token) == IF token[1] = 45 THEN 0 - DigitsValue(Tail(token)) ELSE DigitsValue(token)

\* [int(t) for t in re.findall(r'-?\d+', s)]: the tokens from left to right,
\* each as long as it can be, without overlap.
RECURSIVE FindInts(_)
FindInts(s) ==
  IF s = <<>> THEN <<>>
  ELSE LET n == IF s[1] = 45 THEN (IF DigitRun(s, 2) > 0 THEN 1 + DigitRun(s, 2) ELSE 0)
                ELSE DigitRun(s, 1)
       IN  IF n = 0 THEN FindInts(Tail(s))
           ELSE <<IntOf(SubSeq(s, 1, n))>> \o FindInts(SubSeq(s, n + 1, Len(s)))

\* The record side of the low-temperature cue.
SupportsLowTemp(row) ==
  /\ notna(row.operating_temp)
  /\ LET temp_range == Str(row.operating_temp)
         temps      == FindInts(temp_range)
     IN  /\ Contains(<<45>>, temp_range)
         /\ Len(temps) >= 2
         /\ temps[1] <= -20

HumidRatings == <<
  <<73, 80, 54, 53>>,   \* IP65
  <<73, 80, 54, 54>>,   \* IP66
  <<73, 80, 88, 55>>    \* IPX7
>>
AiFeatures == <<
  <<20998, 26512>>,   \* 分析
  <<26234, 33021>>,   \* 智能
  <<25844, 20805>>,   \* 擴充
  <<24179, 21488>>    \* 平台
>>
RealtimeFeatures == <<
  <<21363, 26178>>,   \* 即時
  <<36899, 32396>>,   \* 連續
  <<25345, 32396>>    \* 持續
>>

\* The record side of the high-humidity cue.
ResistsHumidity(row) ==
  /\ notna(row.ip_rating)
  /\ \E r \in 1..Len(HumidRatings) : Contains(HumidRatings[r], Upper(Str(row.ip_rating)))

\* any(f in str(row['features']).lower() for f in fs), when features is present.
FeaturesHave(row, fs) == notna(row.features) /\ AnyIn(fs, Lower(Str(row.features)))

LowTempBonus == (30 * SCALE) \div 100
HumidBonus == (20 * SCALE) \div 100
AiBonus == (20 * SCALE) \div 100
RealtimeBonus == (15 * SCALE) \div 100

\* One iteration of the loop over df.iterrows().
EnvSimRow(user_lower, row) ==
  LET low   == IF AnyIn(env_requirements.low_temp, user_lower) /\ SupportsLowTemp(row)
               THEN LowTempBonus ELSE 0
      humid == IF AnyIn(env_requirements.high_humidity, user_lower) /\ ResistsHumidity(row)
               THEN HumidBonus ELSE 0
      ai    == IF AnyIn(env_requirements.ai, user_lower) /\ FeaturesHave(row, AiFeatures)
               THEN AiBonus ELSE 0
      rt    == IF AnyIn(env_requirements.realtime, user_lower)
                  /\ FeaturesHave(row, RealtimeFeatures)
               THEN RealtimeBonus ELSE 0
  IN  Min(low + humid + ai + rt, ONE)

\* for _, row in df.iterrows(): similarities.append(min(env_score, 1.0))
RECURSIVE EnvSimRows(_, _)
EnvSimRows(user_lower, rows) ==
  IF rows = <<>> THEN <<>>
  ELSE <<EnvSimRow(user_lower, rows[1])>> \o EnvSimRows(user_lower, Tail(rows))

calculate_environment_similarity(user_input, df) == EnvSimRows(Lower(user_input), df)

(***************************************************************************)
(* parse_compatible_modules                                                *)
(***************************************************************************)
\* s.split(','): the pieces between the commas, empty pieces included.
RECURSIVE SplitComma(_)
SplitComma(s) ==
  LET commas == {i \in 1..Len(s) : s[i] = 44}
  IN  IF commas = {} THEN <<s>>
      ELSE LET i == SetMin(commas)
           IN  <<SubSeq(s, 1, i - 1)>> \o SplitComma(SubSeq(s, i + 1, Len(s)))

\* Lines 41-45: the text of the argument, cleaned, split and trimmed.
ParseText(text) ==
  LET cleaned == RemoveChars(StripSet(text, {123, 125}), {34, 39})
      pieces  == SplitComma(cleaned)
      modules == [i \in 1..Len(pieces) |-> Strip(pieces[i])]
  IN  IF cleaned = <<>> THEN <<>>
      ELSE SelectSeq(modules, LAMBDA m : m # <<>>)

\* str(x) of a list of strings: "['A', 'B']" (repr puts a string that holds
\* no quote and no backslash between single quotes).
RECURSIVE JoinRepr(_)
JoinRepr(items) ==
  IF items = <<>> THEN <<>>
  ELSE <<39>> \o items[1] \o <<39>>
       \o (IF Len(items) > 1 THEN <<44, 32>> \o JoinRepr(Tail(items)) ELSE <<>>)
StrOfList(items) == <<91>> \o JoinRepr(items) \o <<93>>

\* The argument is a str (kind "str", text v), None (kind "none") or a list of
\* strings (kind "list", items v).  A falsy argument (None, '', []) gives [].
parse_compatible_modules(x) ==
  IF x.kind = "none" \/ x.v = <<>> THEN <<>>
  ELSE IF x.kind = "list" THEN ParseText(StrOfList(x.v))
  ELSE ParseText(x.v)

StrArg(s) == [kind |-> "str", v |-> s]
ListArg(items) == [kind |-> "list", v |-> items]
NoneArg == [kind |-> "none", v |-> <<>>]

(***************************************************************************)
(* recommend_advanced                                                      *)
(*                                                                         *)
(* An optional value (None or a value) is a sequence of length 0 or 1.     *)
(***************************************************************************)
\* Series.round(3): the nearest multiple of 1/1000, a tie going to the even
\* one.  x is in units of 1/unit; the result is in units of 1/1000.
Round3(x, unit) ==
  LET d  == unit \div 1000
      fl == x \div d
      r  == x - fl * d
  IN  IF 2 * r > d THEN fl + 1
      ELSE IF 2 * r < d THEN fl
      ELSE IF fl % 2 = 0 THEN fl ELSE fl + 1

\* Variant of FinalScore that leaves out the environment term.
FinalScoreNoEnvironment(t, m, s, e, w) ==
  t * w.sensor_type_weight + m * w.module_weight + s * w.semantic_weight

\* Step 5, one element of final_scores, in units of 1/(SCALE * WSCALE).
FinalScore(t, m, s, e, w) ==
  t * w.sensor_type_weight + m * w.module_weight
    + s * w.semantic_weight + e * w.environment_weight

\* Variant of Matched that compares without bringing the threshold to the
\* unit of the scores.
MatchedUnscaled(final, threshold) == {i \in 1..Len(final) : final[i] >= threshold}

\* Step 7, the filter: the rows with final_score >= threshold.
Matched(final, threshold) == {i \in 1..Len(final) : final[i] >= threshold * SCALE}

\* Variant of SortedOrders that sorts ascending.
SortedOrdersAscending(final, keep) ==
  {o \in [1..Cardinality(keep) -> keep] :
     /\ \A a, b \in 1..Cardinality(keep) : a # b => o[a] # o[b]
     /\ \A a, b \in 1..Cardinality(keep) : a < b => final[o[a]] <= final[o[b]]}

\* Step 7, sort_values(by="final_score", ascending=False).  The default kind
\* is quicksort, which is not stable: rows of equal final_score come out in
\* any order.
SortedOrders(final, keep) ==
  {o \in [1..Cardinality(keep) -> keep] :
     /\ \A a, b \in 1..Cardinality(keep) : a # b => o[a] # o[b]
     /\ \A a, b \in 1..Cardinality(keep) : a < b => final[o[a]] >= final[o[b]]}

\* Variant of head that stops one row early.
headShort(order, top_k) == SubSeq(order, 1, Min(top_k, Len(order)) - 1)

\* Steps 8-9, head(top_k): the first top_k rows of an order.
head(order, top_k) == SubSeq(order, 1, Min(top_k, Len(order)))

\* One row of the returned frame: the score columns rounded to 3 decimals (in
\* units of 1/1000).  pos is the row's position in the catalog.
ResultRow(i, t, m, s, e, f) ==
  [pos                    |-> i,
   final_score            |-> Round3(f, SCALE * WSCALE),
   sensor_type_similarity |-> Round3(t, SCALE),
   module_similarity      |-> Round3(m, SCALE),
   semantic_similarity    |-> Round3(s, SCALE),
   environment_similarity |-> Round3(e, SCALE)]

\* Steps 2-4: the three rule-based score arrays of (user_input, df), or the
\* fact that calculate_module_similarity raised; nothing when df is None (the
\* call returns before them).  They depend on nothing else, so a caller below
\* evaluates them once per query.
RuleScores(user_input, df) ==
  IF df = <<>> \/ ModuleSimRaises(df[1])
  THEN [raised |-> TRUE, t |-> <<>>, m |-> <<>>, e |-> <<>>]
  ELSE [raised |-> FALSE,
        t |-> calculate_sensor_type_similarity(user_input, df[1]),
        m |-> calculate_module_similarity(user_input, df[1]),
        e |-> calculate_environment_similarity(user_input, df[1])]

RECURSIVE FinalScores(_, _, _, _, _)
FinalScores(t, m, s, e, w) ==
  IF t = <<>> THEN <<>>
  ELSE <<FinalScore(t[1], m[1], s[1], e[1], w)>>
       \o FinalScores(Tail(t), Tail(m), Tail(s), Tail(e), w)

\* Steps 5-9 of the try block, given the vector util.cos_sim returned and the
\* rule-based scores: the set of values the call can return.
Rank(rule, semantic_similarities, w, threshold, top_k) ==
  LET t == rule.t
      m == rule.m
      s == semantic_similarities
      e == rule.e
      final   == FinalScores(t, m, s, e, w)
      matched == Matched(final, threshold)
  IN  IF matched = {} THEN {<<>>}
      ELSE {<<[k \in 1..Len(head(o, top_k)) |->
                 LET i == head(o, top_k)[k]
                 IN  ResultRow(i, t[i], m[i], s[i], e[i], final[i])]>> :
            o \in SortedOrders(final, matched)}

\* The result of a call whose embedding step raised (model.encode or
\* util.cos_sim): the except clause prints and returns None.
OnException == <<>>

\* The values a call can return.  embed is what the embedding collaborator
\* did in this call: <<vector>> when it returned the cosine similarities,
\* << >> when it raised.  rule is RuleScores(user_input, df).
recommend_advanced(df, model, device_embeddings, rule, embed, w, threshold, top_k) ==
  IF df = <<>> \/ model = <<>> \/ device_embeddings = <<>> THEN {<<>>}
  ELSE IF embed = <<>> THEN {OnException}
  ELSE IF rule.raised THEN {OnException}
  ELSE Rank(rule, embed[1], w, threshold, top_k)

\* Step 6 as a whole: df_copy = df.copy() followed by the five column
\* assignments.  A frame is <<rows>>, or <<rows, columns>> once score columns
\* were assigned to it.
ScoredFrame(df, rule, semantic_similarities, w) ==
  <<df[1], [sensor_type_similarity |-> rule.t,
            module_similarity      |-> rule.m,
            semantic_similarity    |-> semantic_similarities,
            environment_similarity |-> rule.e,
            final_score |-> FinalScores(rule.t, rule.m, semantic_similarities, rule.e, w)]>>

\* Variant of AfterColumnWrites for column assignments made on df itself.
AfterColumnWritesInPlace(df, df_copy) == df_copy

\* The frame the caller's df refers to once the columns were assigned to
\* df_copy: df.copy() is a new object, so df keeps its value.
AfterColumnWrites(df, df_copy) == df

\* The caller's catalog after a call of recommend_advanced: nothing is
\* written before step 6, which is reached when no argument is None and
\* neither the embedding nor a scoring function raised.
CatalogAfter(df, model, device_embeddings, rule, embed, w) ==
  IF df = <<>> \/ model = <<>> \/ device_embeddings = <<>> THEN df
  ELSE IF embed = <<>> \/ rule.raised THEN df
  ELSE AfterColumnWrites(df, ScoredFrame(df, rule, embed[1], w))

(***************************************************************************)
(* initialize_system                                                       *)
(***************************************************************************)
\* One row of the frame after lines 17-18: compatible_modules with NaN
\* replaced by '' and parsed_modules derived from it.
LoadRow(raw) ==
  LET filled == IF raw.compatible_modules = NaN THEN <<>> ELSE raw.compatible_modules
  IN  [type               |-> raw.type,
       features           |-> raw.features,
       ip_rating          |-> raw.ip_rating,
       operating_temp     |-> raw.operating_temp,
       compatible_modules |-> filled,
       parsed_modules     |-> parse_compatible_modules(StrArg(filled))]

\* The triple (df, model, device_embeddings), each an optional value: all
\* None when reading the file or loading the model raised.  The embedding of
\* a row is opaque: one "vec" per row.
initialize_system(csv, model_loads) ==
  IF ~csv.readable \/ ~model_loads
  THEN [df |-> <<>>, model |-> <<>>, device_embeddings |-> <<>>]
  ELSE [df                |-> <<[i \in 1..Len(csv.rows) |-> LoadRow(csv.rows[i])]>>,
        model             |-> <<"SentenceTransformer">>,
        device_embeddings |-> <<[i \in 1..Len(csv.rows) |-> "vec"]>>]

(***************************************************************************)
(* Bounds and input domains of the model                                   *)
(***************************************************************************)
MaxCatalog == 2
MaxTopK == 2
MaxPhrases == 2
MaxRawLen == 4

\* All sequences over S of length at most n.
SeqsUpTo(S, n) == UNION {[1..k -> S] : k \in 0..n}

RECURSIVE Concat(_)
Concat(ss) == IF ss = <<>> THEN <<>> ELSE ss[1] \o Concat(Tail(ss))

\* Rows of sensors.csv.
CsvTempHumidity ==
  [type               |-> TempHumidity,
   compatible_modules |-> <<123, 28331, 28629, 24230, 30435, 25511, 20597, 28204, 125>>,  \* {溫濕度監控偵測}
   features           |-> <<21363, 26178, 20998, 26512>>,                                 \* 即時分析
   ip_rating          |-> <<73, 80, 54, 53>>,                                             \* IP65
   operating_temp     |-> <<45, 51, 48, 126, 54, 48>>]                                    \* -30~60
CsvThermal ==
  [type               |-> <<29105, 39023, 20687>>,                                        \* 熱顯像
   \* {火災預警偵測(wifi), '體溫偵測器'}
   compatible_modules |-> <<123, 28779, 28797, 38928, 35686, 20597, 28204, 40, 119, 105, 102, 105, 41,
                            44, 32, 39, 39636, 28331, 20597, 28204, 22120, 39, 125>>,
   features           |-> NaN,
   ip_rating          |-> NaN,
   operating_temp     |-> <<48, 45, 53, 48>>]                                             \* 0-50
CsvBlank ==
  [type |-> NaN, compatible_modules |-> NaN, features |-> NaN, ip_rating |-> NaN,
   operating_temp |-> NaN]
CsvRows == {CsvTempHumidity, CsvThermal, CsvBlank}
CsvFiles ==
  {[readable |-> TRUE, rows |-> r] : r \in SeqsUpTo(CsvRows, MaxCatalog)}
    \cup {[readable |-> FALSE, rows |-> <<>>]}

\* Queries of the ranking calls.
QueryCold == <<20919, 34255, 20489, 24235, 28331, 24230>>   \* 冷藏倉庫溫度
QueryThermal == <<29105, 39023, 20687>>                     \* 熱顯像
QueryTemp == <<28331, 24230>>                               \* 溫度
RankQueries == {QueryCold, QueryThermal, QueryTemp}

\* Weights and thresholds in units of 1/WSCALE: the defaults of
\* recommend_advanced, and a set that does not sum to 1.
Weights(t, m, s, e) ==
  [sensor_type_weight |-> t, module_weight |-> m, semantic_weight |-> s,
   environment_weight |-> e]
WeightSets == {Weights(40, 30, 25, 5), Weights(100, 100, 100, 100)}
Thresholds == {0, 50, 110}

\* Cosine similarities the embedding collaborator returns, in units of 1/SCALE.
SemValues == {0 - 30000, 43740}

\* Queries of the calls of the scoring functions: up to MaxPhrases phrases.
Vocab == {<<20919, 34255, 20489, 24235>>,   \* 冷藏倉庫
          <<28331, 24230>>,                 \* 溫度
          <<29105, 39023, 20687>>,          \* 熱顯像
          <<28331, 28629, 24230>>}          \* 溫濕度
ScoreQueries == {Concat(ps) : ps \in SeqsUpTo(Vocab, MaxPhrases)}

\* Rows a caller can hand to the scoring functions: a loaded row, a row with
\* padded type, modules that resolve by approximate matching and a range that
\* holds no number, a row of NaN cells, and a row of a frame without columns.
RowLoaded == LoadRow(CsvTempHumidity)
RowFuzzy ==
  [type               |-> <<32, 29105, 39023, 20687, 32>>,                    \* ' 熱顯像 '
   features           |-> NaN,
   ip_rating          |-> NaN,
   operating_temp     |-> <<97, 98, 99>>,                                     \* abc
   compatible_modules |-> <<>>,
   parsed_modules     |-> << <<28779, 28797, 20597, 28204>>,                  \* 火災偵測
                             <<39636, 28331, 20597, 28204, 22120>> >>]        \* 體溫偵測器
RowNaN ==
  [type |-> NaN, features |-> NaN, ip_rating |-> NaN, operating_temp |-> NaN,
   compatible_modules |-> NaN, parsed_modules |-> NaNList]
RowNoColumns ==
  [type |-> None, features |-> None, ip_rating |-> None, operating_temp |-> None,
   compatible_modules |-> None, parsed_modules |-> AbsentList]
ScoreRows == {RowLoaded, RowFuzzy, RowNaN, RowNoColumns}
ScoreCatalogs == SeqsUpTo(ScoreRows, MaxCatalog)

\* Arguments of parse_compatible_modules: None, every text of at most
\* MaxRawLen characters over A , space { } ' and the documented example.
ParseAlphabet == {65, 44, 32, 123, 125, 39}
ParseExample == <<123, 65, 44, 32, 66, 44, 32, 39, 67, 39, 125>>   \* {A, B, 'C'}
ParseInputs ==
  {NoneArg, StrArg(ParseExample)} \cup {StrArg(t) : t \in SeqsUpTo(ParseAlphabet, MaxRawLen)}

\* Queries of the calls of analyze_user_intent: up to MaxPhrases phrases.
IntentVocab == {<<20919, 34255, 20489, 24235>>,   \* 冷藏倉庫
                <<39640, 28331, 29872, 22659>>,   \* 高溫環境
                <<28526, 28629, 29872, 22659>>,   \* 潮濕環境
                <<24037, 24288, 29872, 22659>>,   \* 工廠環境
                <<28331, 28629, 24230>>,          \* 溫濕度
                <<28331, 24230>>,                 \* 溫度
                <<24863, 28204>>,                 \* 感測
                <<29105, 39023, 20687>>,          \* 熱顯像
                <<36786, 26989>>,                 \* 農業
                <<65, 73>>}                       \* AI

(***************************************************************************)
(* The API process (main.py)                                               *)
(***************************************************************************)
\* What the embedding collaborator can do in one call: raise (<< >>), or
\* return one cosine similarity per device embedding (<<vector>>).
EmbedOutcomes(device_embeddings) ==
  IF device_embeddings = <<>> THEN {<<>>}
  ELSE {<<>>} \cup {<<v>> : v \in [1..Len(device_embeddings[1]) -> SemValues]}

\* RecommendationRequest: the field constraints (pydantic answers 422 when
\* one fails).  Weights and threshold are in units of 1/WSCALE.
ValidRequest(req) ==
  /\ Len(req.query) >= 1 /\ Len(req.query) <= 500
  /\ \A x \in {req.weights.sensor_type_weight, req.weights.module_weight,
               req.weights.semantic_weight, req.weights.environment_weight,
               req.threshold} : x >= 0 /\ x <= WSCALE
  /\ req.top_k >= 1 /\ req.top_k <= 20

Init ==
  /\ system_state = [df |-> <<>>, model |-> <<>>, device_embeddings |-> <<>>,
                     initialized |-> FALSE, error_message |-> <<>>]
  /\ phase = "boot"
  /\ call = [fn |-> "none"]

\* Variant of AfterStartup that stores the triple without looking at it.
AfterStartupUnchecked(state, r) ==
  [state EXCEPT !.df = r.df, !.model = r.model,
                !.device_embeddings = r.device_embeddings, !.initialized = TRUE]

\* system_state after startup_event, r being what initialize_system returned.
AfterStartup(state, r) ==
  IF r.df # <<>> /\ r.model # <<>> /\ r.device_embeddings # <<>>
  THEN [state EXCEPT !.df = r.df, !.model = r.model,
                     !.device_embeddings = r.device_embeddings, !.initialized = TRUE]
  ELSE [state EXCEPT !.error_message = <<"init failed">>]

\* startup_event: runs once, before the first request is served.
startup_event ==
  /\ phase = "boot"
  /\ \E csv \in CsvFiles, model_loads \in BOOLEAN :
       system_state' = AfterStartup(system_state, initialize_system(csv, model_loads))
  /\ phase' = "idle"
  /\ call' = [fn |-> "startup_event"]

\* A direct call of recommend_advanced on the loaded catalog (as
\* interactive_recommend and quick_search make it), with any weights,
\* threshold and top_k.
call_recommend_advanced ==
  /\ phase = "idle"
  /\ \E user_input \in RankQueries :
       \E rule \in {RuleScores(user_input, system_state.df)} :
           \E w \in WeightSets, threshold \in Thresholds, top_k \in 1..MaxTopK,
              embed \in EmbedOutcomes(system_state.device_embeddings) :
             \E result \in recommend_advanced(system_state.df, system_state.model,
                                              system_state.device_embeddings, rule, embed,
                                              w, threshold, top_k) :
               /\ call' = [fn |-> "recommend_advanced", user_input |-> user_input,
                           weights |-> w, threshold |-> threshold, top_k |-> top_k,
                           embed |-> embed, rule |-> rule, result |-> result]
               /\ system_state' =
                    [system_state EXCEPT
                       !.df = CatalogAfter(system_state.df, system_state.model,
                                           system_state.device_embeddings, rule, embed, w)]
  /\ phase' = "done"

\* POST /api/recommend.
recommend_sensors ==
  /\ phase = "idle"
  /\ \E query \in RankQueries :
      \E rule \in {RuleScores(query, system_state.df)} :
      \E w \in WeightSets, threshold \in Thresholds,
        top_k \in 1..MaxTopK, embed \in EmbedOutcomes(system_state.device_embeddings) :
       LET req == [query |-> query, weights |-> w, threshold |-> threshold, top_k |-> top_k]
       IN  IF ~ValidRequest(req)
           THEN /\ call' = [fn |-> "recommend_sensors", request |-> req, embed |-> <<>>,
                            status |-> 422, success |-> FALSE, total_found |-> 0,
                            recommendations |-> <<>>]
                /\ UNCHANGED system_state
           ELSE IF ~system_state.initialized
           THEN /\ call' = [fn |-> "recommend_sensors", request |-> req, embed |-> <<>>,
                            status |-> 503, success |-> FALSE, total_found |-> 0,
                            recommendations |-> <<>>]
                /\ UNCHANGED system_state
           ELSE \E result \in recommend_advanced(system_state.df, system_state.model,
                                                 system_state.device_embeddings, rule,
                                                 embed, w, threshold, top_k) :
                  LET rows == IF result = <<>> THEN <<>> ELSE result[1]
                  IN  /\ call' = [fn |-> "recommend_sensors", request |-> req,
                                  embed |-> embed, status |-> 200, success |-> TRUE,
                                  total_found |-> Len(rows), recommendations |-> rows]
                      /\ system_state' =
                           [system_state EXCEPT
                              !.df = CatalogAfter(system_state.df, system_state.model,
                                                  system_state.device_embeddings, rule,
                                                  embed, w)]
  /\ phase' = "done"

\* GET /api/quick-search: recommend_advanced with its default weights, the
\* threshold 0.3 and top_k = limit (limit >= 0 here).
quick_search ==
  /\ phase = "idle"
  /\ \E q \in RankQueries, limit \in 0..MaxTopK :
       IF ~system_state.initialized
       THEN /\ call' = [fn |-> "quick_search", q |-> q, limit |-> limit, embed |-> <<>>,
                        status |-> 503, total |-> 0, results |-> <<>>]
            /\ UNCHANGED system_state
       ELSE \E rule \in {RuleScores(q, system_state.df)} :
            \E embed \in EmbedOutcomes(system_state.device_embeddings) :
            \E result \in recommend_advanced(system_state.df, system_state.model,
                                             system_state.device_embeddings, rule, embed,
                                             Weights(40, 30, 25, 5), 30, limit) :
              LET rows == IF result = <<>> THEN <<>> ELSE result[1]
              IN  /\ call' = [fn |-> "quick_search", q |-> q, limit |-> limit,
                              embed |-> embed, status |-> 200, total |-> Len(rows),
                              results |-> [k \in 1..Len(rows) |->
                                            [pos   |-> rows[k].pos,
                                             score |-> rows[k].final_score]]]
                  /\ system_state' =
                       [system_state EXCEPT
                          !.df = CatalogAfter(system_state.df, system_state.model,
                                              system_state.device_embeddings, rule, embed,
                                              Weights(40, 30, 25, 5))]
  /\ phase' = "done"

\* GET /api/sensor-types: the number of rows of each type (value_counts
\* leaves NaN out) and the number of rows.
get_sensor_types ==
  /\ phase = "idle"
  /\ call' = IF ~system_state.initialized
             THEN [fn |-> "get_sensor_types", status |-> 503, sensor_types |-> {},
                   total_sensors |-> 0]
             ELSE LET rows == system_state.df[1]
                  IN  [fn |-> "get_sensor_types", status |-> 200,
                       sensor_types |->
                         {[type  |-> rows[i].type,
                           count |-> Cardinality({j \in 1..Len(rows) :
                                                   rows[j].type = rows[i].type})] :
                            i \in {k \in 1..Len(rows) : notna(rows[k].type)}},
                       total_sensors |-> Len(rows)]
  /\ phase' = "done"
  /\ UNCHANGED system_state

\* The caller has taken the result; the process waits for the next call.
next_call ==
  /\ phase = "done"
  /\ phase' = "idle"
  /\ call' = [fn |-> "none"]
  /\ UNCHANGED system_state

Next ==
  \/ startup_event
  \/ call_recommend_advanced
  \/ recommend_sensors
  \/ quick_search
  \/ get_sensor_types
  \/ next_call

vars == <<system_state, phase, call>>

Spec == Init /\ [][Next]_vars

(***************************************************************************)
(* The rule-based scoring functions called on their own                    *)
(***************************************************************************)
ScoreInit ==
  /\ system_state = [df |-> <<>>, model |-> <<>>, device_embeddings |-> <<>>,
                     initialized |-> FALSE, error_message |-> <<>>]
  /\ phase = "input"
  /\ call \in {[fn |-> "input", user_input |-> q, df |-> d] :
                 q \in ScoreQueries, d \in ScoreCatalogs}

call_sensor_type_similarity ==
  /\ phase = "input"
  /\ call' = [fn |-> "calculate_sensor_type_similarity", user_input |-> call.user_input,
              df |-> call.df, raised |-> FALSE,
              result |-> calculate_sensor_type_similarity(call.user_input, call.df)]
  /\ phase' = "done"
  /\ UNCHANGED system_state

call_module_similarity ==
  /\ phase = "input"
  /\ call' = IF ModuleSimRaises(call.df)
             THEN [fn |-> "calculate_module_similarity", user_input |-> call.user_input,
                   df |-> call.df, raised |-> TRUE, result |-> <<>>]
             ELSE [fn |-> "calculate_module_similarity", user_input |-> call.user_input,
                   df |-> call.df, raised |-> FALSE,
                   result |-> calculate_module_similarity(call.user_input, call.df)]
  /\ phase' = "done"
  /\ UNCHANGED system_state

call_environment_similarity ==
  /\ phase = "input"
  /\ call' = [fn |-> "calculate_environment_similarity", user_input |-> call.user_input,
              df |-> call.df, raised |-> FALSE,
              result |-> calculate_environment_similarity(call.user_input, call.df)]
  /\ phase' = "done"
  /\ UNCHANGED system_state

ScoreNext ==
  call_sensor_type_similarity \/ call_module_similarity \/ call_environment_similarity

ScoreSpec == ScoreInit /\ [][ScoreNext]_vars

(***************************************************************************)
(* parse_compatible_modules called on its own, and again on its result     *)
(***************************************************************************)
ParseInit ==
  /\ system_state = [df |-> <<>>, model |-> <<>>, device_embeddings |-> <<>>,
                     initialized |-> FALSE, error_message |-> <<>>]
  /\ phase = "input"
  /\ call \in {[fn |-> "input", arg |-> x] : x \in ParseInputs}

call_parse ==
  /\ phase = "input"
  /\ call' = [fn |-> "parse_compatible_modules", arg |-> call.arg,
              result |-> parse_compatible_modules(call.arg)]
  /\ phase' = "parsed"
  /\ UNCHANGED system_state

\* The list the first call returned is parsed again.
call_reparse ==
  /\ phase = "parsed"
  /\ call' = [fn |-> "reparse", arg |-> call.arg, first |-> call.result,
              result |-> parse_compatible_modules(ListArg(call.result))]
  /\ phase' = "done"
  /\ UNCHANGED system_state

ParseNext == call_parse \/ call_reparse

ParseSpec == ParseInit /\ [][ParseNext]_vars

\* Variant of IntentAnalysis that reports the recognised domain as the
\* primary application.
IntentAnalysisWithDomain(intent) ==
  [direct_sensor_needs   |-> intent.direct_sensor_needs,
   environmental_context |-> intent.environmental_context,
   exclude_keywords      |-> intent.exclude_keywords,
   primary_application   |-> intent.application_domain,
   environment_needs     |-> intent.environment_needs,
   technical_specs       |-> intent.technical_specs]

(***************************************************************************)
(* analyze_user_intent called on its own, and the intent_analysis that     *)
(* recommend_sensors builds from its result                                *)
(***************************************************************************)
\* IntentAnalysis(...) of recommend_sensors: six fields read with intent.get.
IntentAnalysis(intent) ==
  [direct_sensor_needs   |-> intent.direct_sensor_needs,
   environmental_context |-> intent.environmental_context,
   exclude_keywords      |-> intent.exclude_keywords,
   primary_application   |-> intent.primary_application,
   environment_needs     |-> intent.environment_needs,
   technical_specs       |-> intent.technical_specs]

IntentInit ==
  /\ system_state = [df |-> <<>>, model |-> <<>>, device_embeddings |-> <<>>,
                     initialized |-> FALSE, error_message |-> <<>>]
  /\ phase = "input"
  /\ call \in {[fn |-> "input", user_input |-> q] : q \in {Concat(ps) : ps \in SeqsUpTo(IntentVocab, MaxPhrases)}}

call_analyze_user_intent ==
  /\ phase = "input"
  /\ call' = [fn |-> "analyze_user_intent", user_input |-> call.user_input,
              result |-> analyze_user_intent(call.user_input)]
  /\ phase' = "analyzed"
  /\ UNCHANGED system_state

\* recommend_sensors reports the intent in its response.
build_intent_analysis ==
  /\ phase = "analyzed"
  /\ call' = [fn |-> "IntentAnalysis", user_input |-> call.user_input,
              intent |-> call.result, result |-> IntentAnalysis(call.result)]
  /\ phase' = "done"
  /\ UNCHANGED system_state

IntentNext == call_analyze_user_intent \/ build_intent_analysis

IntentSpec == IntentInit /\ [][IntentNext]_vars

(***************************************************************************)
(* calculate_sensor_type_similarity on one-record catalogs of every        *)
(* keyword-list size band                                                  *)
(***************************************************************************)
\* A row of which only the type is filled.
TypeRows ==
  LET TypeOnlyRow(type) ==
        [type |-> type, features |-> NaN, ip_rating |-> NaN, operating_temp |-> NaN,
         compatible_modules |-> <<>>, parsed_modules |-> <<>>]
  IN  {TypeOnlyRow(t) : t \in {<<29105, 39023, 20687>>,                 \* 熱顯像 (8 primary)
                               TempHumidity,                            \* 溫濕度 (6 primary)
                               <<28331, 28629, 24230, 24863, 28204, 22120>>,   \* 溫濕度感測器
                               <<27683, 39636, 24863, 28204>>,          \* 氣體感測 (19 primary)
                               <<27627, 31859, 27874, 38647, 36948>>,   \* 毫米波雷達 (5 primary)
                               <<88, 89, 90>>,                          \* XYZ (no table)
                               NaN}}
KeywordVocab == {<<30435, 25511>>,                 \* 監控
                 <<28331, 24230>>,                 \* 溫度
                 <<27683, 39636>>,                 \* 氣體
                 <<24037, 26989, 30435, 25511>>,   \* 工業監控
                 <<38647, 36948>>,                 \* 雷達
                 <<29105, 28304>>,                 \* 熱源
                 <<20919, 34255, 20489, 24235>>}   \* 冷藏倉庫

TypeInit ==
  /\ system_state = [df |-> <<>>, model |-> <<>>, device_embeddings |-> <<>>,
                     initialized |-> FALSE, error_message |-> <<>>]
  /\ phase = "input"
  /\ call \in {[fn |-> "input", user_input |-> q, df |-> <<r>>] :
                 q \in {Concat(ps) : ps \in SeqsUpTo(KeywordVocab, MaxPhrases)}, r \in TypeRows}

TypeNext == call_sensor_type_similarity

TypeSpec == TypeInit /\ [][TypeNext]_vars

(***************************************************************************)
(* calculate_module_similarity on one-record catalogs                      *)
(***************************************************************************)
\* A row of which only parsed_modules is filled.
ModuleRows ==
  LET ModuleOnlyRow(parsed_modules) ==
        [type |-> NaN, features |-> NaN, ip_rating |-> NaN, operating_temp |-> NaN,
         compatible_modules |-> <<>>, parsed_modules |-> parsed_modules]
  IN  {ModuleOnlyRow(ms) :
         ms \in {<<>>,
                 AbsentList,
                 << <<28331, 28629, 24230, 30435, 25511, 20597, 28204, 22120>> >>,   \* 溫濕度監控偵測器
                 << <<28779, 28797, 38928, 35686, 20597, 28204,
                      40, 87, 105, 70, 105, 41>> >>,                                 \* 火災預警偵測(WiFi)
                 << <<20670, 26012, 20597, 28204>>,                                  \* 傾斜偵測
                    <<39340, 36948, 20597, 28204>> >>,                               \* 馬達偵測
                 << <<88, 89, 90>> >>,                                               \* XYZ
                 << <<28779, 28797, 20597, 28204>>,                                  \* 火災偵測
                    <<39636, 28331, 20597, 28204, 22120>> >>,                        \* 體溫偵測器
                 << <<40, 120, 41>> >>}}                                             \* (x)
ModuleVocab == {<<28331, 28629, 24230>>,                                \* 溫濕度
                <<29872, 22659, 28331, 24230>>,                         \* 環境溫度
                <<36786, 26989>>,                                       \* 農業
                <<24863, 28204>>,                                       \* 感測
                <<20670, 26012>>,                                       \* 傾斜
                <<25391, 21205>>,                                       \* 振動
                <<28779, 28797>>,                                       \* 火災
                <<28331, 28629, 24230, 30435, 25511, 20597, 28204>>}    \* 溫濕度監控偵測

ModuleInit ==
  /\ system_state = [df |-> <<>>, model |-> <<>>, device_embeddings |-> <<>>,
                     initialized |-> FALSE, error_message |-> <<>>]
  /\ phase = "input"
  /\ call \in {[fn |-> "input", user_input |-> q, df |-> <<r>>] :
                 q \in {Concat(ps) : ps \in SeqsUpTo(ModuleVocab, MaxPhrases)}, r \in ModuleRows}

ModuleNext == call_module_similarity

ModuleSpec == ModuleInit /\ [][ModuleNext]_vars

(***************************************************************************)
(* calculate_environment_similarity on one-record catalogs                 *)
(***************************************************************************)
\* A row with the three attributes the environment score reads.
EnvRows ==
  LET EnvRow(operating_temp, ip_rating, features) ==
        [type |-> NaN, features |-> features, ip_rating |-> ip_rating,
         operating_temp |-> operating_temp, compatible_modules |-> <<>>, parsed_modules |-> <<>>]
  IN  {EnvRow(t, ip, f) :
         t  \in {NaN,
                 <<45, 51, 48, 126, 54, 48>>,                              \* -30~60
                 <<48, 45, 53, 48>>,                                       \* 0-50
                 <<45, 49, 48, 126, 53, 48>>},                             \* -10~50
         ip \in {NaN,
                 <<105, 112, 54, 53>>,                                     \* ip65
                 <<73, 80, 53, 52>>},                                      \* IP54
         f  \in {NaN,
                 <<26234, 33021, 20998, 26512, 21363, 26178, 30435, 28204>>,   \* 智能分析即時監測
                 <<25345, 32396, 35352, 37636>>}}                          \* 持續記錄
EnvVocab == {<<20919, 34255>>,                 \* 冷藏
             <<28526, 28629>>,                 \* 潮濕
             <<65, 73>>,                       \* AI
             <<20154, 24037, 26234, 24935>>,   \* 人工智慧
             <<21363, 26178>>}                 \* 即時

EnvInit ==
  /\ system_state = [df |-> <<>>, model |-> <<>>, device_embeddings |-> <<>>,
                     initialized |-> FALSE, error_message |-> <<>>]
  /\ phase = "input"
  /\ call \in {[fn |-> "input", user_input |-> q, df |-> <<r>>] :
                 q \in {Concat(ps) : ps \in SeqsUpTo(EnvVocab, MaxPhrases)}, r \in EnvRows}

EnvNext == call_environment_similarity

EnvSpec == EnvInit /\ [][EnvNext]_vars

(***************************************************************************)
(* extract_environmental_suitability                                       *)
(***************************************************************************)
\* The tags the function attaches.
Tag == [
  dust_water     |-> <<38450, 22645, 38450, 27700>>,   \* 防塵防水
  outdoor        |-> <<23460, 22806, 36969, 29992>>,   \* 室外適用
  harsh          |-> <<24801, 21155, 29872, 22659>>,   \* 惡劣環境
  waterproof     |-> <<38450, 27700>>,                 \* 防水
  outdoor_usable |-> <<25142, 22806, 21487, 29992>>,   \* 戶外可用
  protected      |-> <<29872, 22659, 20445, 35703>>,   \* 環境保護
  extreme_cold   |-> <<26997, 20302, 28331>>,          \* 極低溫
  freezing       |-> <<22196, 23506, 29872, 22659>>,   \* 嚴寒環境
  high_temp      |-> <<39640, 28331>>,                 \* 高溫
  industrial     |-> <<24037, 26989, 29872, 22659>>,   \* 工業環境
  indoor         |-> <<23460, 20839, 29872, 22659>>,   \* 室內環境
  general        |-> <<19968, 33324, 29872, 22659>>,   \* 一般環境
  wide_range     |-> <<23532, 28331, 31684, 22285>>,   \* 寬溫範圍
  ultra_low      |-> <<36229, 20302, 21151, 32791>>,   \* 超低功耗
  battery        |-> <<38651, 27744, 20379, 38651>>,   \* 電池供電
  low_power      |-> <<20302, 21151, 32791>>,          \* 低功耗
  saving         |-> <<31680, 33021>>                  \* 節能
]

\* The tags of the IP rating (lines 104-112); the two texts that get no tag
\* are 未標示 and 未指定.
IpTags(row) ==
  IF ~notna(row.ip_rating) THEN <<>>
  ELSE LET ip_rating == Upper(Str(row.ip_rating))
       IN  IF Contains(<<73, 80, 54, 53>>, ip_rating) \/ Contains(<<73, 80, 54, 54>>, ip_rating)
           THEN <<Tag.dust_water, Tag.outdoor, Tag.harsh,
                  Tag.dust_water, Tag.outdoor, Tag.harsh>>
           ELSE IF Contains(<<73, 80, 88, 55>>, ip_rating)
                   \/ Contains(<<73, 80, 88, 56>>, ip_rating)
           THEN <<Tag.waterproof, Tag.outdoor_usable>>
           ELSE IF ip_rating # <<26410, 27161, 31034>> /\ ip_rating # <<26410, 25351, 23450>>
           THEN <<Tag.protected>>
           ELSE <<>>

\* The tags of the operating temperature (lines 114-133): three independent
\* tests, the last of them with an else branch.
TemperatureTags(row) ==
  IF ~notna(row.operating_temp) THEN <<>>
  ELSE LET temp_range == Str(row.operating_temp)
           temps      == FindInts(temp_range)
       IN  IF ~Contains(<<45>>, temp_range) \/ Len(temps) < 2 THEN <<>>
           ELSE LET min_temp == temps[1]
                    max_temp == temps[2]
                IN  (IF min_temp <= -20 THEN <<Tag.extreme_cold, Tag.freezing>> ELSE <<>>)
                    \o (IF max_temp >= 85 THEN <<Tag.high_temp, Tag.industrial>> ELSE <<>>)
                    \o (IF min_temp >= 0 /\ max_temp <= 50
                        THEN <<Tag.indoor, Tag.general>>
                        ELSE <<Tag.wide_range, Tag.harsh>>)

\* The tags of the power consumption (lines 135-144).  A numeric cell is
\* <<-3, n>>, n in 1/1000; float() of a text without digits raises ValueError,
\* which the handler swallows.
PowerTags(row) ==
  IF ~notna(row.power_consumption) THEN <<>>
  ELSE IF ~(Len(row.power_consumption) = 2 /\ row.power_consumption[1] = -3) THEN <<>>
  ELSE LET power == row.power_consumption[2]
       IN  IF power <= 10 THEN <<Tag.ultra_low, Tag.battery>>
           ELSE IF power <= 100 THEN <<Tag.low_power, Tag.saving>>
           ELSE <<>>

extract_environmental_suitability(row) == IpTags(row) \o TemperatureTags(row) \o PowerTags(row)

\* The rows extract_environmental_suitability is called on: ranges from lo to
\* hi written with the separators '~', '-' and ' - ' (each row with the bounds
\* its operating_temp was written from), and cells without a range.
SuitInputs ==
  LET DigitStr(n) == IF n < 10 THEN <<48 + n>> ELSE <<48 + (n \div 10), 48 + (n % 10)>>
      IntStr(n)   == IF n < 0 THEN <<45>> \o DigitStr(0 - n) ELSE DigitStr(n)
      ip_ratings  == {NaN, <<105, 112, 54, 53>>, <<73, 80, 88, 55>>, <<73, 80, 53, 52>>,
                      <<26410, 27161, 31034>>}
  IN  {[fn |-> "input",
        row |-> [ip_rating |-> ip, operating_temp |-> IntStr(lo) \o sep \o IntStr(hi),
                 power_consumption |-> pw],
        written |-> <<lo, hi>>] :
         ip \in ip_ratings, pw \in {NaN, <<-3, 50>>},
         sep \in {<<126>>, <<45>>, <<32, 45, 32>>},
         lo \in {-40, -20, -10, 0, 10}, hi \in {40, 50, 60, 85, 90}}
      \cup
      {[fn |-> "input",
        row |-> [ip_rating |-> ip, operating_temp |-> t, power_consumption |-> pw],
        written |-> <<>>] :
         ip \in ip_ratings,
         pw \in {NaN, <<-3, 5>>, <<-3, 50>>, <<-3, 500>>, <<97, 98, 99>>},
         t \in {NaN, <<45, 52, 48>>, <<97, 98, 99>>}}     \* NaN, -40, abc

SuitInit ==
  /\ system_state = [df |-> <<>>, model |-> <<>>, device_embeddings |-> <<>>,
                     initialized |-> FALSE, error_message |-> <<>>]
  /\ phase = "input"
  /\ call \in SuitInputs

call_extract_environmental_suitability ==
  /\ phase = "input"
  /\ call' = [fn |-> "extract_environmental_suitability", row |-> call.row,
              written |-> call.written,
              result |-> extract_environmental_suitability(call.row)]
  /\ phase' = "done"
  /\ UNCHANGED system_state

SuitNext == call_extract_environmental_suitability

SuitSpec == SuitInit /\ [][SuitNext]_vars

(***************************************************************************)
(* Properties of recommend_advanced (specification Spec)                   *)
(***************************************************************************)
Abs(x) == IF x < 0 THEN 0 - x ELSE x

\* The rows of the frame a recommend_advanced call returned (none for None).
Returned == IF call.result = <<>> THEN <<>> ELSE call.result[1]

\* The call ran the try block on a loaded catalog with the vector the
\* embedding collaborator returned.
Ranked == call.fn = "recommend_advanced" /\ system_state.df # <<>> /\ call.embed # <<>>

\* The unrounded component scores of the call's catalog, and their weighted
\* sum under the call's weights in units of 1/(SCALE * WSCALE).
CallType == call.rule.t
CallModule == call.rule.m
CallEnv == call.rule.e
WeightedSum(t, m, s, e, w) ==
  w.sensor_type_weight * t + w.module_weight * m + w.semantic_weight * s
    + w.environment_weight * e
RECURSIVE WeightedSums(_, _, _, _, _)
WeightedSums(t, m, s, e, w) ==
  IF t = <<>> THEN <<>>
  ELSE <<WeightedSum(t[1], m[1], s[1], e[1], w)>>
       \o WeightedSums(Tail(t), Tail(m), Tail(s), Tail(e), w)
CallFused == WeightedSums(CallType, CallModule, call.embed[1], CallEnv, call.weights)

\* C1 (as stated): each of the four component scores attached to a returned
\* candidate lies in [0, 1].
C1_AllComponentsInUnitInterval ==
  call.fn = "recommend_advanced" =>
    \A k \in 1..Len(Returned) :
      /\ Returned[k].sensor_type_similarity \in 0..1000
      /\ Returned[k].module_similarity \in 0..1000
      /\ Returned[k].semantic_similarity \in 0..1000
      /\ Returned[k].environment_similarity \in 0..1000

\* C1 (amended): the three rule-based scores attached to a returned candidate
\* lie in [0, 1]; the semantic score is the cosine similarity and lies in
\* [-1, 1].
C1_RuleScoresInUnitIntervalSemanticInCosineRange ==
  call.fn = "recommend_advanced" =>
    \A k \in 1..Len(Returned) :
      /\ Returned[k].sensor_type_similarity \in 0..1000
      /\ Returned[k].module_similarity \in 0..1000
      /\ Returned[k].environment_similarity \in 0..1000
      /\ Returned[k].semantic_similarity \in (0 - 1000)..1000

\* A returned candidate whose type score reached the cap of 1 and whose
\* semantic score is negative.
C1_Witness ==
  /\ call.fn = "recommend_advanced"
  /\ \E k \in 1..Len(Returned) :
       /\ Returned[k].sensor_type_similarity = 1000
       /\ Returned[k].semantic_similarity < 0

\* C2 (as stated): the attached final_score equals the weighted sum of the
\* four attached component scores under the supplied weights.
C2_FusedIsWeightedSumOfAttached ==
  call.fn = "recommend_advanced" =>
    \A k \in 1..Len(Returned) :
      Returned[k].final_score * WSCALE =
        WeightedSum(Returned[k].sensor_type_similarity, Returned[k].module_similarity,
                    Returned[k].semantic_similarity, Returned[k].environment_similarity,
                    call.weights)

\* C2 (amended): the attached final_score is the weighted sum of the record's
\* four unrounded component scores, rounded to 3 decimals; each attached
\* component is the unrounded one rounded to 3 decimals; hence final_score is
\* within 0.0005 * (1 + sum of |weights|) of the weighted sum of the attached
\* components.
C2_FusedIsRoundedWeightedSum ==
  Ranked =>
    LET t == CallType
        m == CallModule
        e == CallEnv
        fused == WeightedSums(t, m, call.embed[1], e, call.weights)
    IN
    \A k \in 1..Len(Returned) :
      LET r == Returned[k]
          i == r.pos
          w == call.weights
      IN  /\ r.final_score = Round3(fused[i], SCALE * WSCALE)
          /\ r.sensor_type_similarity = Round3(t[i], SCALE)
          /\ r.module_similarity = Round3(m[i], SCALE)
          /\ r.semantic_similarity = Round3(call.embed[1][i], SCALE)
          /\ r.environment_similarity = Round3(e[i], SCALE)
          /\ 2 * Abs(r.final_score * WSCALE
                     - WeightedSum(r.sensor_type_similarity, r.module_similarity,
                                   r.semantic_similarity, r.environment_similarity, w))
               <= WSCALE + Abs(w.sensor_type_weight) + Abs(w.module_weight)
                         + Abs(w.semantic_weight) + Abs(w.environment_weight)

\* A returned candidate with non-zero module, semantic and environment
\* scores whose final_score is not the weighted sum of the attached (rounded)
\* components.
C2_Witness ==
  /\ Ranked
  /\ \E k \in 1..Len(Returned) :
       /\ Returned[k].module_similarity # 0
       /\ Returned[k].semantic_similarity # 0
       /\ Returned[k].environment_similarity # 0
       /\ Returned[k].final_score * WSCALE #
            WeightedSum(Returned[k].sensor_type_similarity, Returned[k].module_similarity,
                        Returned[k].semantic_similarity, Returned[k].environment_similarity,
                        call.weights)

\* C5 (as stated): two returned candidates with identical final_score keep
\* the relative order they have in the catalog.
C5_TiesKeepCatalogOrder ==
  call.fn = "recommend_advanced" =>
    \A a, b \in 1..Len(Returned) :
      (a < b /\ Returned[a].final_score = Returned[b].final_score)
        => Returned[a].pos < Returned[b].pos

\* C6 (as stated): with threshold 1.1 the call returns no record, whatever
\* the weights.
C6_Threshold11ReturnsNothing ==
  (call.fn = "recommend_advanced" /\ call.threshold = 110) => Returned = <<>>

\* C6 (amended): with threshold 1.1 the call returns no record when the
\* weights are non-negative and sum to at most 1.
C6_Threshold11ReturnsNothingForNormalisedWeights ==
  (/\ call.fn = "recommend_advanced"
   /\ call.threshold = 110
   /\ \A x \in {call.weights.sensor_type_weight, call.weights.module_weight,
                call.weights.semantic_weight, call.weights.environment_weight} : x >= 0
   /\ call.weights.sensor_type_weight + call.weights.module_weight
        + call.weights.semantic_weight + call.weights.environment_weight <= WSCALE)
    => Returned = <<>>

\* A call with threshold 1.1 and the default weights on a catalog holding a
\* record whose type score is at the cap, which returned nothing.
C6_Witness ==
  /\ Ranked
  /\ call.threshold = 110
  /\ call.weights = Weights(40, 30, 25, 5)
  /\ LET t == CallType
     IN  \E i \in 1..Len(t) : t[i] = ONE /\ call.embed[1][i] > 0
  /\ Returned = <<>>

\* C7 (as stated): with threshold 0.0 the call returns min(top_k, catalog
\* size) records.
C7_Threshold0ReturnsTopK ==
  (Ranked /\ call.threshold = 0) =>
    Len(Returned) = Min(call.top_k, Len(system_state.df[1]))

\* C7 (amended): with threshold 0.0 the call returns min(top_k, number of
\* records whose fused score is >= 0) records, each with a fused score >= 0.
C7_Threshold0ReturnsTopKOfNonNegative ==
  (Ranked /\ call.threshold = 0) =>
    LET fused == CallFused
    IN  /\ Len(Returned) =
             Min(call.top_k, Cardinality({i \in 1..Len(fused) : fused[i] >= 0}))
        /\ \A k \in 1..Len(Returned) : fused[Returned[k].pos] >= 0

\* A call with threshold 0.0 on a catalog of more than one record that kept
\* a record and dropped one with a negative fused score.
C7_Witness ==
  /\ Ranked
  /\ call.threshold = 0
  /\ Len(Returned) >= 1
  /\ Len(Returned) < Min(call.top_k, Len(system_state.df[1]))
  /\ LET fused == CallFused
     IN  \E i \in 1..Len(fused) : fused[i] < 0

\* C8 (as stated): a call whose embedding step raised ends in an outcome
\* other than the one of "no record cleared the threshold" (None from
\* recommend_advanced; 200 with success and total_found 0 from the API).
C8_EmbeddingFailureDistinguishable ==
  /\ (call.fn = "recommend_advanced" /\ system_state.df # <<>> /\ call.embed = <<>>)
       => call.result # <<>>
  /\ (call.fn = "recommend_sensors" /\ call.status \notin {422, 503} /\ call.embed = <<>>)
       => ~(call.status = 200 /\ call.success /\ call.total_found = 0)

(***************************************************************************)
(* Properties of the scoring functions (specification ScoreSpec)           *)
(***************************************************************************)
\* C3: a record whose type is in the query's exclusion list gets a
\* sensor-type similarity of exactly 0, whatever keywords the query holds.
C3_ExcludedTypeScoresZero ==
  call.fn = "calculate_sensor_type_similarity" =>
    LET intent == analyze_user_intent(call.user_input)
    IN  \A i \in 1..Len(call.df) :
          InSeq(call.df[i].type, intent.exclude_keywords) => call.result[i] = 0

\* A scored record of an excluded type, under a query that holds a primary
\* keyword of that type.
C3_Witness ==
  /\ call.fn = "calculate_sensor_type_similarity"
  /\ Contains(<<28331, 24230>>, call.user_input)
  /\ \E i \in 1..Len(call.df) :
       /\ call.df[i].type = TempHumidity
       /\ InSeq(call.df[i].type, analyze_user_intent(call.user_input).exclude_keywords)
       /\ call.result[i] = 0

\* C4: a record whose type is a direct need of the query and is not in the
\* exclusion list gets a sensor-type similarity of exactly 0.9.
C4_DirectNeedScoresNineTenths ==
  call.fn = "calculate_sensor_type_similarity" =>
    LET intent == analyze_user_intent(call.user_input)
    IN  \A i \in 1..Len(call.df) :
          (/\ InSeq(call.df[i].type, intent.direct_sensor_needs)
           /\ ~InSeq(call.df[i].type, intent.exclude_keywords))
            => call.result[i] * 10 = 9 * SCALE

\* A scored record of a directly requested type, under a query that holds
\* two primary keywords of that type and a low-temperature cue.
C4_Witness ==
  /\ call.fn = "calculate_sensor_type_similarity"
  /\ Contains(TempHumidity, call.user_input)
  /\ Contains(<<20919, 34255>>, call.user_input)
  /\ \E i \in 1..Len(call.df) :
       /\ call.df[i].type = TempHumidity
       /\ InSeq(TempHumidity, analyze_user_intent(call.user_input).direct_sensor_needs)
       /\ call.result[i] * 10 = 9 * SCALE

\* C10 (as stated): each of the three rule-based scoring functions returns
\* one score per record for every query and record, NaN or absent
\* parsed_modules included, without raising.
C10_RuleScoringTotal ==
  call.fn \in {"calculate_sensor_type_similarity", "calculate_module_similarity",
               "calculate_environment_similarity"}
    => (~call.raised /\ Len(call.result) = Len(call.df))

(***************************************************************************)
(* Properties of parse_compatible_modules (specification ParseSpec)        *)
(***************************************************************************)
\* C9 (as stated): parsing the list a first parse returned gives that list
\* again.
C9_ParseIdempotent ==
  call.fn = "reparse" => call.result = call.first

(***************************************************************************)
(* Ranking (specification Spec)                                            *)
(***************************************************************************)
\* C11: the returned list is the first top_k of the records whose fused score
\* is >= threshold in non-increasing order of fused score: the returned
\* records are distinct and clear the threshold, their final_score values are
\* non-increasing, there are min(top_k, number of clearing records) of them,
\* and no omitted clearing record has a fused score strictly above that of a
\* returned record.
C11_ReturnedIsTopKOfCleared ==
  Ranked =>
    \A fused \in {CallFused} :
      LET cleared == {i \in 1..Len(fused) : fused[i] >= call.threshold * SCALE}
          shown   == {Returned[k].pos : k \in 1..Len(Returned)}
      IN  /\ shown \subseteq cleared
          /\ Cardinality(shown) = Len(Returned)
          /\ Len(Returned) = Min(call.top_k, Cardinality(cleared))
          /\ \A a, b \in 1..Len(Returned) :
               a < b => /\ Returned[a].final_score >= Returned[b].final_score
                        /\ fused[Returned[a].pos] >= fused[Returned[b].pos]
          /\ \A i \in cleared \ shown : \A j \in shown : fused[i] <= fused[j]

\* A call with threshold 0.5 that returned one record and left out a record,
\* earlier in the catalog, that cleared the threshold with a strictly lower
\* fused score.
C11_Witness ==
  /\ Ranked
  /\ call.threshold = 50
  /\ Len(Returned) = 1
  /\ LET fused == CallFused
     IN  \E i \in 1..Len(fused) :
           /\ i < Returned[1].pos
           /\ fused[i] >= call.threshold * SCALE
           /\ fused[i] < fused[Returned[1].pos]

(***************************************************************************)
(* Properties of analyze_user_intent (specification IntentSpec)            *)
(***************************************************************************)
\* C12: the exclusion list holds 溫濕度 exactly when the recorded
\* environmental context holds one of 低溫環境, 高濕環境, 高溫環境 and 溫濕度
\* is not a direct need; it holds no other label and shares none with the
\* direct needs.
C12_ExclusionIffHarshContextWithoutDirectNeed ==
  call.fn = "analyze_user_intent" =>
    LET r == call.result
        harsh == \E i \in 1..Len(r.environmental_context) :
                   r.environmental_context[i] \in {LowTempCtx, HighHumidCtx, HighTempCtx}
        named == \E i \in 1..Len(r.direct_sensor_needs) :
                   r.direct_sensor_needs[i] = TempHumidity
    IN  /\ (\E i \in 1..Len(r.exclude_keywords) : r.exclude_keywords[i] = TempHumidity)
             <=> (harsh /\ ~named)
        /\ \A i \in 1..Len(r.exclude_keywords) :
             /\ r.exclude_keywords[i] = TempHumidity
             /\ \A j \in 1..Len(r.direct_sensor_needs) :
                  r.direct_sensor_needs[j] # r.exclude_keywords[i]

\* A query with a high-humidity context and a direct need other than 溫濕度,
\* whose exclusion list is 溫濕度.
C12_Witness ==
  /\ call.fn = "analyze_user_intent"
  /\ InSeq(HighHumidCtx, call.result.environmental_context)
  /\ Len(call.result.direct_sensor_needs) > 0
  /\ call.result.exclude_keywords = <<TempHumidity>>

(***************************************************************************)
(* Properties of the scoring functions, continued (specification ScoreSpec)*)
(***************************************************************************)
\* The type of a row as the scoring loop reads it: the text of the cell,
\* stripped.
TypeText(row) == Strip(Str(GetOr(row.type, <<>>)))

\* C13 (as stated): of two non-excluded records, one whose type is a direct
\* need and one whose type is not (scored through its keyword table), the
\* directly requested one has a type similarity at least as high.
C13_DirectNeedNeverOutscored ==
  call.fn = "calculate_sensor_type_similarity" =>
    LET intent == analyze_user_intent(call.user_input)
    IN  \A a, b \in 1..Len(call.df) :
          (/\ InSeq(TypeText(call.df[a]), intent.direct_sensor_needs)
           /\ ~InSeq(TypeText(call.df[a]), intent.exclude_keywords)
           /\ ~InSeq(TypeText(call.df[b]), intent.direct_sensor_needs)
           /\ ~InSeq(TypeText(call.df[b]), intent.exclude_keywords)
           /\ \E k \in 1..Len(sensor_type_keywords) :
                sensor_type_keywords[k].key = TypeText(call.df[b]))
            => call.result[a] >= call.result[b]

(***************************************************************************)
(* Keyword scoring of the type (specification TypeSpec)                    *)
(***************************************************************************)
\* C14: a record that is neither excluded nor directly requested scores 0
\* when its type has no keyword table or no primary keyword occurs in the
\* lower-cased query; otherwise min(1, min(1, P) + min(0.2, S)) with P and S
\* the primary and secondary scores normalised by the size band of the
\* primary list (> 12, > 5, otherwise).
C14_KeywordTierScore ==
  call.fn = "calculate_sensor_type_similarity" =>
    LET intent == analyze_user_intent(call.user_input)
        q      == Lower(call.user_input)
    IN  \A i \in 1..Len(call.df) :
          LET tt  == TypeText(call.df[i])
              tbl == {k \in 1..Len(sensor_type_keywords) : sensor_type_keywords[k].key = tt}
          IN  (/\ \A e \in 1..Len(intent.exclude_keywords) :
                      ~Contains(intent.exclude_keywords[e], tt)
               /\ ~InSeq(tt, intent.direct_sensor_needs))
                => IF tbl = {} THEN call.result[i] = 0
                   ELSE LET kws == sensor_type_keywords[CHOOSE k \in tbl : TRUE]
                            n   == Len(kws.primary)
                            ns  == Len(kws.secondary)
                            pm  == Cardinality({j \in 1..n : Contains(kws.primary[j], q)})
                            sm  == Cardinality({j \in 1..ns : Contains(kws.secondary[j], q)})
                            \* P = pm / (n / d) * 4 with d = 2.5, 1.7, 1.4
                            P   == IF n > 12 THEN (pm * 25 * 4 * SCALE) \div (n * 10)
                                   ELSE IF n > 5 THEN (pm * 17 * 4 * SCALE) \div (n * 10)
                                   ELSE (pm * 14 * 4 * SCALE) \div (n * 10)
                            \* S = sm / (ns / d) * 0.3 with d = 1.3, 1.3, 1
                            S   == IF n > 5 THEN (sm * 13 * 3 * SCALE) \div (ns * 100)
                                   ELSE (sm * 10 * 3 * SCALE) \div (ns * 100)
                            capP == IF P > SCALE THEN SCALE ELSE P
                            capS == IF 5 * S > SCALE THEN SCALE \div 5 ELSE S
                        IN  IF pm = 0 THEN call.result[i] = 0
                            ELSE /\ call.result[i] =
                                      (IF capP + capS > SCALE THEN SCALE ELSE capP + capS)
                                 /\ call.result[i] - capP <= SCALE \div 5
                                 /\ call.result[i] <= SCALE

\* A record of a type with a keyword table, not excluded and not directly
\* requested, scored from one primary and one secondary keyword to a value
\* strictly between its primary score and 1.
C14_Witness ==
  /\ call.fn = "calculate_sensor_type_similarity"
  /\ call.df[1].type = <<27683, 39636, 24863, 28204>>
  /\ Contains(<<24037, 26989, 30435, 25511>>, call.user_input)
  /\ analyze_user_intent(call.user_input).direct_sensor_needs = <<>>
  /\ call.result[1] > (25 * 4 * SCALE) \div 190
  /\ call.result[1] < SCALE

(***************************************************************************)
(* Module scoring (specification ModuleSpec)                               *)
(***************************************************************************)
\* The cleaned names of the modules of a row (none when the column is absent).
CleanedModules(row) ==
  IF row.parsed_modules = AbsentList THEN {}
  ELSE {ModuleClean(row.parsed_modules[m]) : m \in 1..Len(row.parsed_modules)}

\* weight / total of the profile with index k, counted on the lower-cased query.
WeightOverTotal(k, q) ==
  LET kw == application_keywords[k]
      hits(list) == Cardinality({j \in 1..Len(list) : Contains(list[j], q)})
      weight == hits(kw.primary) * 100 + hits(kw.secondary) * 20 + hits(kw.context) * 5
      total  == Len(kw.primary) * 40 + Len(kw.secondary) * 7 + Len(kw.context) * 2
  IN  (weight * SCALE) \div total

\* C15: a record scores 1.0 if one of its cleaned module names occurs verbatim
\* in the lower-cased query; otherwise the greatest weight/total over its
\* modules with a resolved profile, capped at 1.0; a record with no modules, or
\* with no verbatim hit and no resolvable profile, scores exactly 0.
C15_ModuleScore ==
  (call.fn = "calculate_module_similarity" /\ ~call.raised) =>
    LET q == Lower(call.user_input)
    IN  \A i \in 1..Len(call.df) :
          LET cleaned  == CleanedModules(call.df[i])
              resolved == {MatchedKey(c) : c \in cleaned} \ {0}
              sims     == {WeightOverTotal(k, q) : k \in resolved}
          IN  IF \E c \in cleaned : Contains(c, q) THEN call.result[i] = SCALE
              ELSE IF resolved = {} THEN call.result[i] = 0
              ELSE /\ call.result[i] <= SCALE
                   /\ \A s \in sims : call.result[i] >= (IF s > SCALE THEN SCALE ELSE s)
                   /\ \E s \in sims : call.result[i] = (IF s > SCALE THEN SCALE ELSE s)

\* A record with two modules of different profiles and no verbatim hit, scored
\* strictly between 0 and 1 by the better of the two profiles.
C15_Witness ==
  /\ call.fn = "calculate_module_similarity"
  /\ ~call.raised
  /\ LET q        == Lower(call.user_input)
         cleaned  == CleanedModules(call.df[1])
         resolved == {MatchedKey(c) : c \in cleaned} \ {0}
     IN  /\ \A c \in cleaned : ~Contains(c, q)
         /\ \E k1, k2 \in resolved : WeightOverTotal(k1, q) < WeightOverTotal(k2, q)
         /\ call.result[1] > 0
         /\ call.result[1] < SCALE

\* A record whose cleaned module name occurs verbatim in the query although
\* its profile alone would score less than 1.
C15_WitnessVerbatim ==
  /\ call.fn = "calculate_module_similarity"
  /\ ~call.raised
  /\ LET q        == Lower(call.user_input)
         cleaned  == CleanedModules(call.df[1])
     IN  /\ \E c \in cleaned : /\ Contains(c, q)
                               /\ MatchedKey(c) # 0
                               /\ WeightOverTotal(MatchedKey(c), q) < SCALE
         /\ call.result[1] = SCALE

(***************************************************************************)
(* Environment scoring (specification EnvSpec)                             *)
(***************************************************************************)
\* The capped sum of the increments of the cue groups, a cue group being on
\* when one of its keywords occurs in the text `query` and the record side
\* holds.
EnvIncrements(query, row) ==
  LET cue(keywords) == \E k \in 1..Len(keywords) : Contains(keywords[k], query)
      temps == IF notna(row.operating_temp) THEN FindInts(Str(row.operating_temp)) ELSE <<>>
      low   == /\ cue(env_requirements.low_temp)
               /\ notna(row.operating_temp)
               /\ Contains(<<45>>, Str(row.operating_temp))
               /\ Len(temps) >= 2
               /\ temps[1] <= -20
      humid == /\ cue(env_requirements.high_humidity)
               /\ notna(row.ip_rating)
               /\ \E r \in 1..Len(HumidRatings) :
                    Contains(HumidRatings[r], Upper(Str(row.ip_rating)))
      ai    == /\ cue(env_requirements.ai)
               /\ notna(row.features)
               /\ \E f \in 1..Len(AiFeatures) :
                    Contains(AiFeatures[f], Lower(Str(row.features)))
      rt    == /\ cue(env_requirements.realtime)
               /\ notna(row.features)
               /\ \E f \in 1..Len(RealtimeFeatures) :
                    Contains(RealtimeFeatures[f], Lower(Str(row.features)))
      sum   == (IF low THEN 30000 ELSE 0) + (IF humid THEN 20000 ELSE 0)
               + (IF ai THEN 20000 ELSE 0) + (IF rt THEN 15000 ELSE 0)
  IN  IF sum > SCALE THEN SCALE ELSE sum

\* C16: the environment score of every record is the capped sum of +0.3
\* (low-temperature cue, min operating temperature <= -20), +0.2 (high-humidity
\* cue, ip_rating with IP65, IP66 or IPX7), +0.2 (AI cue, the literal keyword
\* 'AI' in the query included, features with an analytics/AI/platform keyword)
\* and +0.15 (real-time cue, features with a continuous/real-time keyword).
C16_EnvironmentIncrements ==
  call.fn = "calculate_environment_similarity" =>
    \A i \in 1..Len(call.df) :
      call.result[i] = EnvIncrements(call.user_input, call.df[i])

\* What the function computes: the cues are looked up in the lower-cased
\* query, where the upper-case keyword 'AI' cannot occur.
EnvironmentIncrementsOnLowerCasedQuery ==
  call.fn = "calculate_environment_similarity" =>
    \A i \in 1..Len(call.df) :
      call.result[i] = EnvIncrements(Lower(call.user_input), call.df[i])

(***************************************************************************)
(* Environmental-suitability tags (specification SuitSpec)                 *)
(***************************************************************************)
\* C17: for a record whose operating_temp holds two parseable integers, a
\* range from lo to hi, the wide-range tag is attached only when none of
\* lo <= -20, hi >= 85 and 0 <= lo, hi <= 50 applies, and the indoor tags are
\* attached when the range lies within 0..50, hi being the upper bound written
\* in the field.
C17_TemperatureCaseSplit ==
  (call.fn = "extract_environmental_suitability" /\ call.written # <<>>) =>
    LET lo     == call.written[1]
        hi     == call.written[2]
        indoor == lo >= 0 /\ hi <= 50
    IN  /\ InSeq(Tag.wide_range, call.result) => ~(lo <= -20) /\ ~(hi >= 85) /\ ~indoor
        /\ indoor <=> (InSeq(Tag.indoor, call.result) /\ InSeq(Tag.general, call.result))

\* The ranges written with a hyphen, the only ones the function reads.
WrittenWithHyphen ==
  /\ call.fn = "extract_environmental_suitability"
  /\ call.written # <<>>
  /\ Contains(<<45>>, call.row.operating_temp)

\* Among them the indoor tags would go exactly to the ranges within 0..50.
IndoorTagsFollowWrittenRange ==
  WrittenWithHyphen =>
    ((call.written[1] >= 0 /\ call.written[2] <= 50)
       <=> (InSeq(Tag.indoor, call.result) /\ InSeq(Tag.general, call.result)))

\* Among them the wide-range tag would go only to the ranges that meet none
\* of the three other conditions.
WideRangeOnlyOtherwise ==
  WrittenWithHyphen =>
    (InSeq(Tag.wide_range, call.result)
       => /\ ~(call.written[1] <= -20)
          /\ ~(call.written[2] >= 85)
          /\ ~(call.written[1] >= 0 /\ call.written[2] <= 50))

\* What the function does with a range written with a hyphen: the three tests
\* are independent, on the integers as the token scan reads them.
TemperatureTagsAsScanned ==
  WrittenWithHyphen =>
    LET temps == FindInts(call.row.operating_temp)
    IN  /\ InSeq(Tag.extreme_cold, call.result) <=> temps[1] <= -20
        /\ InSeq(Tag.high_temp, call.result) <=> temps[2] >= 85
        /\ InSeq(Tag.indoor, call.result) <=> (temps[1] >= 0 /\ temps[2] <= 50)
        /\ InSeq(Tag.wide_range, call.result) <=> ~(temps[1] >= 0 /\ temps[2] <= 50)

(***************************************************************************)
(* The shared catalog (specification Spec)                                 *)
(***************************************************************************)
\* C18: no request changes the shared catalog or the device embeddings: the
\* score columns go to the copy made for the request, so after any number of
\* calls the catalog is the one produced at load time.
C18_CatalogUnchangedByRequests ==
  [][phase # "boot" =>
       /\ system_state'.df = system_state.df
       /\ system_state'.device_embeddings = system_state.device_embeddings]_vars

\* A request was answered with at least one recommendation, so the score
\* columns were assigned, and the catalog holds no score column.
C18_Witness ==
  /\ system_state.initialized
  /\ call.fn = "recommend_sensors"
  /\ call.status = 200
  /\ call.total_found >= 1
  /\ Len(system_state.df) = 1

(***************************************************************************)
(* Readiness of the API process (specification Spec)                       *)
(***************************************************************************)
\* The handlers that are guarded by system_state["initialized"].
GuardedHandlers == {"recommend_sensors", "quick_search", "get_sensor_types"}

\* C19 as stated: a guarded handler that finds initialized false answers 503.
C19_NotReadyAnswers503 ==
  (call.fn \in GuardedHandlers /\ ~system_state.initialized) => call.status = 503

\* C19: initialized becomes true only in startup_event, with df, model and
\* device_embeddings stored non-None and error_message None, and is never
\* reset; a handler goes on to recommend_advanced or to the catalog only when
\* initialized is true; when it is false the handlers leave system_state
\* alone and answer 503, except that /api/recommend answers 422 to a request
\* that fails validation, which is rejected before the handler runs.
C19_HandlersRunOnlyWhenInitialized ==
  /\ [](system_state.initialized =>
          /\ system_state.df # <<>>
          /\ system_state.model # <<>>
          /\ system_state.device_embeddings # <<>>
          /\ system_state.error_message = <<>>)
  /\ [][(~system_state.initialized /\ system_state'.initialized)
          => call'.fn = "startup_event"]_vars
  /\ [][system_state.initialized => system_state'.initialized]_vars
  /\ []((call.fn \in GuardedHandlers /\ call.status = 200) => system_state.initialized)
  /\ []((call.fn \in GuardedHandlers /\ ~system_state.initialized) =>
          IF call.fn = "recommend_sensors" /\ ~ValidRequest(call.request)
          THEN call.status = 422
          ELSE call.status = 503)
  /\ [][(~system_state.initialized /\ call'.fn \in GuardedHandlers)
          => UNCHANGED system_state]_vars

\* After a failed initialisation a quick search was answered 503.
C19_Witness ==
  /\ call.fn = "quick_search"
  /\ call.status = 503
  /\ ~system_state.initialized
  /\ system_state.error_message # <<>>
  /\ system_state.df = <<>>

(***************************************************************************)
(* The application domain (specification IntentSpec)                       *)
(***************************************************************************)
\* The positions in application_domain_patterns of the domains of which a
\* pattern matches the query.
MatchingDomains(user_input) ==
  {d \in 1..Len(application_domain_patterns) :
     AnyPattern(application_domain_patterns[d].patterns, user_input)}

\* C20: the recognised domain is stored under application_domain only, as
\* the first matching domain in table order (None when none matches);
\* primary_application is None in the intent result and in the
\* intent_analysis the API reports, also when a domain matched.
C20_PrimaryApplicationAlwaysNone ==
  /\ call.fn = "analyze_user_intent" =>
       LET matching == MatchingDomains(call.user_input)
       IN  /\ call.result.primary_application = None
           /\ matching = {} => call.result.application_domain = None
           /\ matching # {} =>
                \E d \in matching :
                  /\ \A other \in matching : d <= other
                  /\ call.result.application_domain = application_domain_patterns[d].label
  /\ call.fn = "IntentAnalysis" => call.result.primary_application = None

\* The intent_analysis of a query that matches two domains: the first of them
\* was stored as application_domain, and primary_application is None.
C20_Witness ==
  /\ call.fn = "IntentAnalysis"
  /\ Cardinality(MatchingDomains(call.user_input)) >= 2
  /\ call.intent.application_domain = application_domain_patterns[1].label
  /\ call.result.primary_application = None

(***************************************************************************)
(* The exclusion rule (specification TypeSpec)                             *)
(***************************************************************************)
\* The excluded labels of the call's intent that occur in the type of a row.
ExcludedLabelsIn(row, intent) ==
  {e \in 1..Len(intent.exclude_keywords) :
     Contains(intent.exclude_keywords[e], TypeText(row))}

\* C21: a record whose type contains an excluded label anywhere scores 0,
\* whatever the direct needs and the keywords say; a record whose type
\* contains no excluded label is not zeroed by the exclusion: it scores 0.9
\* when its type is a direct need, and more than 0 when its type has a keyword
\* table of which a primary keyword occurs in the query.
C21_ExclusionBySubstringOnly ==
  call.fn = "calculate_sensor_type_similarity" =>
    LET intent == analyze_user_intent(call.user_input)
        q      == Lower(call.user_input)
    IN  \A i \in 1..Len(call.df) :
          LET tt  == TypeText(call.df[i])
              tbl == {k \in 1..Len(sensor_type_keywords) : sensor_type_keywords[k].key = tt}
          IN  IF ExcludedLabelsIn(call.df[i], intent) # {}
              THEN call.result[i] = 0
              ELSE /\ InSeq(tt, intent.direct_sensor_needs) => call.result[i] = (9 * SCALE) \div 10
                   /\ (\E k \in tbl : \E j \in 1..Len(sensor_type_keywords[k].primary) :
                         Contains(sensor_type_keywords[k].primary[j], q))
                        => call.result[i] > 0

\* A call whose intent excludes a label: the record whose type holds the
\* label scored 0 although a primary keyword of its type occurs in the query.
C21_Witness ==
  /\ call.fn = "calculate_sensor_type_similarity"
  /\ call.df[1].type = TempHumidity
  /\ ExcludedLabelsIn(call.df[1], analyze_user_intent(call.user_input)) # {}
  /\ Contains(<<28331, 24230>>, call.user_input)
  /\ call.result[1] = 0

\* A call whose intent excludes a label: the record whose type holds the label
\* inside a longer text scored 0.
ExcludedInsideLongerType ==
  /\ call.fn = "calculate_sensor_type_similarity"
  /\ call.df[1].type = <<28331, 28629, 24230, 24863, 28204, 22120>>
  /\ ExcludedLabelsIn(call.df[1], analyze_user_intent(call.user_input)) # {}
  /\ call.result[1] = 0

\* A call whose intent excludes a label: a record of another type kept the
\* score of its keywords.
NotExcludedKeepsScore ==
  /\ call.fn = "calculate_sensor_type_similarity"
  /\ analyze_user_intent(call.user_input).exclude_keywords # <<>>
  /\ ExcludedLabelsIn(call.df[1], analyze_user_intent(call.user_input)) = {}
  /\ call.result[1] > 0

====
